---- MODULE Spec2Model ----
(***************************************************************************)
(* Chunked upload / download of react-big-upload-demo.                     *)
(*                                                                         *)
(*   client  utils/async.ts      retryOperation, asyncPool                 *)
(*           utils/download.ts   createChunks, downloadFileWithChunks      *)
(*           utils/upload.ts     uploadChunk, processFileChunks            *)
(*           workers/fileChunkWorker.ts                                    *)
(*           components/FileUploader.tsx  handleUpload, handleCancel       *)
(*   server  upload/upload.service.ts     handleChunk, mergeChunks         *)
(*                                                                         *)
(* Byte counts are in MiB: a file of size 5 is a 5 MiB file and carries    *)
(* the bytes <<1, 2, 3, 4, 5>>, one distinguishable value per MiB.         *)
(*                                                                         *)
(* JavaScript runs every promise reaction (microtask) that an event made   *)
(* ready before it takes the next event.  An action of this module is one  *)
(* event (a call, a network response, a file-system or database            *)
(* completion) together with all the microtasks it triggers.               *)
(***************************************************************************)
EXTENDS Integers, Sequences, FiniteSets, TLC

\* ------------------------------------------------------------------------
\* Bounds of the model
\* ------------------------------------------------------------------------
MaxItems == 4           \* asyncPool alone: at most this many items
MaxConcurrency == 3     \* asyncPool alone: concurrency is in 1..MaxConcurrency
MaxReq == 4             \* server, one request at a time: requests in a run
MaxConcReq == 2         \* server, concurrent requests: requests in a run
BigFileSize == 5        \* size of file "hA" (5 MiB: chunks of 2, 2 and 1 MiB)
SmallFileSize == 2      \* size of file "hB" (one chunk)
HugeFileSize == 7       \* size of file "hC" (four chunks: more than the pool of 3)
TinyFileSize == 3       \* size of file "hD" (two chunks)
MaxCalls == 2           \* FileUploader: handleUpload calls in a run
MaxDlConcurrency == 3   \* download: concurrency is in 1..MaxDlConcurrency
MaxPosts == 4           \* FileUploader: chunk POSTs in a run
MaxRetryCalls == 2      \* retryOperation: calls in progress together
MaxAttempts == 3        \* retryOperation: maxAttempts is in 1..MaxAttempts
MaxFieldLen == 2        \* controller: characters of a numeric form field
MaxCrashes == 1         \* server: stops of the server process in a run
MaxFileBytes == 11      \* chunk worker alone: file.size is in 0..MaxFileBytes
MaxChunkBytes == 3      \* chunk worker alone: chunkSize is in 1..MaxChunkBytes

\* ------------------------------------------------------------------------
\* Generic helpers
\* ------------------------------------------------------------------------
Min(a, b) == IF a < b THEN a ELSE b

Max(a, b) == IF a > b THEN a ELSE b

\* Math.ceil(a / b) for a >= 0, b >= 1
Ceil(a, b) == (a + b - 1) \div b

SeqRemove(s, x) == SelectSeq(s, LAMBDA y : y # x)

SeqToSet(s) == {s[k] : k \in 1..Len(s)}

\* ========================================================================
\* asyncPool (utils/async.ts)
\* ========================================================================
\* The state of one asyncPool(concurrency, items, fn) call.  Items are
\* numbered 0..cnt-1.
\*   promise[i]   state of the promise returned by fn(items[i])
\*   pool         the Set `pool`, in insertion order
\*   wrapper[i]   state of the async arrow function mapped over item i
\*   snap[i]      members of the Promise.race the wrapper of i awaits
\*   raced[i]     that race is settled and the wrapper is about to resume
\*   raceErr[i]   the member that rejected the race, -1 if it fulfilled
\*   waitOrder    wrappers awaiting a race, in the order the races were made
\*   results      the array `results`, by item, in push order
\*   phase        "mapping": awaiting Promise.all(items.map(..));
\*                "collecting": awaiting Promise.all(results);
\*                "fulfilled" / "rejected": the call has settled
\*   error        the item whose error the call rejected with, -1 if none
\*   peak         largest number of started, unsettled fn calls seen so far
NewPool(concurrency, cnt) ==
    [concurrency |-> concurrency,
     cnt         |-> cnt,
     promise     |-> [i \in 0..cnt-1 |-> "none"],
     pool        |-> <<>>,
     wrapper     |-> [i \in 0..cnt-1 |-> "idle"],
     snap        |-> [i \in 0..cnt-1 |-> {}],
     raced       |-> [i \in 0..cnt-1 |-> FALSE],
     raceErr     |-> [i \in 0..cnt-1 |-> -1],
     waitOrder   |-> <<>>,
     results     |-> <<>>,
     phase       |-> "mapping",
     error       |-> -1,
     peak        |-> 0]

Settled(s) == s \in {"fulfilled", "rejected"}

InFlight(p) == {i \in 0..p.cnt-1 : p.promise[i] = "pending"}

ThenJob(i) == [k |-> "then", i |-> i, w |-> -1]

RaceJob(w, i) == [k |-> "race", i |-> i, w |-> w]

ResumeJob(w) == [k |-> "resume", i |-> -1, w |-> w]

\* while (pool.size >= concurrency)
PoolFullOffByOne(p) == Len(p.pool) > p.concurrency

PoolFull(p) == Len(p.pool) >= p.concurrency

\* results.push(result)
PushResultFront(results, w) == <<w>> \o results

PushResult(results, w) == Append(results, w)

\* const promise = fn(item); const result = promise.then(..);
\* pool.add(promise); results.push(result);
\* imm[w] is what fn(items[w]) has done when it returns its promise:
\* "pending" (it awaits something), "fulfilled" or "rejected" (it returned
\* or threw before any await).
StartMapper(p, w, imm) ==
    LET q == [p EXCEPT !.promise[w] = imm[w],
                       !.pool = Append(@, w),
                       !.results = PushResult(@, w),
                       !.wrapper[w] = "done",
                       !.snap[w] = {}]
    IN [p    |-> [q EXCEPT !.peak = Max(@, Cardinality(InFlight(q)))],
        jobs |-> IF Settled(imm[w]) THEN <<ThenJob(w)>> ELSE <<>>]

\* await Promise.race(pool): the members already settled react at once, in
\* the Set's iteration order.
AwaitRace(p, w) ==
    LET settledIdx == SelectSeq(p.pool, LAMBDA i : Settled(p.promise[i]))
    IN [p    |-> [p EXCEPT !.wrapper[w] = "waiting",
                           !.snap[w] = SeqToSet(p.pool),
                           !.raced[w] = FALSE,
                           !.raceErr[w] = -1,
                           !.waitOrder = Append(SeqRemove(@, w), w)],
        jobs |-> [k \in 1..Len(settledIdx) |-> RaceJob(w, settledIdx[k])]]

\* One pass of the wrapper of item w from the head of its while loop.
WrapperLoop(p, w, imm) ==
    IF PoolFull(p) THEN AwaitRace(p, w) ELSE StartMapper(p, w, imm)

\* promise.then(value => { pool.delete(promise); return value; }): only a
\* fulfilled promise is taken out of the pool.
RunThen(p, i) ==
    IF p.promise[i] = "fulfilled"
    THEN [p |-> [p EXCEPT !.pool = SeqRemove(@, i)], jobs |-> <<>>]
    ELSE [p |-> p, jobs |-> <<>>]

\* A member of the race of wrapper w has settled.
RunRaceLost(p, w, i) == [p |-> p, jobs |-> <<>>]

RunRace(p, w, i) ==
    IF p.wrapper[w] = "waiting" /\ ~p.raced[w] /\ i \in p.snap[w]
    THEN [p |-> [p EXCEPT !.raced[w] = TRUE,
                          !.raceErr[w] =
                              IF p.promise[i] = "rejected" THEN i ELSE -1],
          jobs |-> <<ResumeJob(w)>>]
    ELSE [p |-> p, jobs |-> <<>>]

\* The wrapper of w resumes after its await: a rejected race throws out of
\* the wrapper, which rejects Promise.all(items.map(..)) and so the call.
RunResume(p, w, imm) ==
    LET q == [p EXCEPT !.waitOrder = SeqRemove(@, w), !.raced[w] = FALSE]
    IN  IF p.raceErr[w] # -1
        THEN [p |-> [q EXCEPT !.wrapper[w] = "rejected",
                              !.phase = IF @ = "mapping" THEN "rejected" ELSE @,
                              !.error = IF q.phase = "mapping"
                                        THEN p.raceErr[w] ELSE @],
              jobs |-> <<>>]
        ELSE WrapperLoop(q, w, imm)

RunJob(p, job, imm) ==
    CASE job.k = "then"   -> RunThen(p, job.i)
      [] job.k = "race"   -> RunRace(p, job.w, job.i)
      [] job.k = "resume" -> RunResume(p, job.w, imm)

\* return Promise.all(results), once Promise.all(items.map(..)) is fulfilled
Collect(p) ==
    LET rej == {k \in 1..Len(p.results) : p.promise[p.results[k]] = "rejected"}
    IN  IF rej # {}
        THEN [p EXCEPT !.phase = "rejected",
                       !.error = p.results[CHOOSE k \in rej :
                                             \A m \in rej : k <= m]]
        ELSE IF \A k \in 1..Len(p.results) :
                    p.promise[p.results[k]] = "fulfilled"
             THEN [p EXCEPT !.phase = "fulfilled"]
             ELSE p

SettleCall(p) ==
    IF p.phase = "mapping" /\ \A i \in 0..p.cnt-1 : p.wrapper[i] = "done"
    THEN Collect([p EXCEPT !.phase = "collecting"])
    ELSE IF p.phase = "collecting" THEN Collect(p) ELSE p

\* Run the microtask queue to exhaustion.  The effect r of the job at the
\* head is bound as a value (it is computed once), then the rest is run.
RECURSIVE Drain(_, _, _)
Drain(p, jobs, imm) ==
    IF jobs = <<>> THEN SettleCall(p)
    ELSE CHOOSE end \in {Drain(r.p, Tail(jobs) \o r.jobs, imm) :
                          r \in {RunJob(p, Head(jobs), imm)}} : TRUE

\* items.map(async item => ..): the wrappers run one after the other, each
\* up to its first await.
RECURSIVE MapItems(_, _, _, _)
MapItems(p, w, jobs, imm) ==
    IF w >= p.cnt THEN [p |-> p, jobs |-> jobs]
    ELSE CHOOSE end \in {MapItems(r.p, w + 1, jobs \o r.jobs, imm) :
                          r \in {WrapperLoop(p, w, imm)}} : TRUE

\* The call asyncPool(concurrency, items, fn) up to its first idle point.
asyncPool(concurrency, cnt, imm) ==
    LET r == MapItems(NewPool(concurrency, cnt), 0, <<>>, imm)
    IN  Drain(r.p, r.jobs, imm)

\* The promise of fn(items[i]) settles later, from an event.
PoolSettle(p, i, outcome, imm) ==
    LET q == [p EXCEPT !.promise[i] = outcome]
        waiters == SelectSeq(q.waitOrder,
                             LAMBDA w : i \in q.snap[w] /\ ~q.raced[w])
    IN  Drain(q, <<ThenJob(i)>> \o
                 [k \in 1..Len(waiters) |-> RaceJob(waiters[k], i)], imm)


\* A JavaScript value used as a number: `i < maxRetries` converts maxRetries
\* with ToNumber, and a comparison with NaN is false.
NumberValue(n) == [nan |-> FALSE, n |-> n]

NaN == [nan |-> TRUE, n |-> 0]


\* ========================================================================
\* Server: UploadService (upload/upload.service.ts)
\* ========================================================================
\* const chunkSize = 2 * 1024 * 1024, in MiB
ServerChunkSize == 2

ReqIds == 1..Max(MaxReq, MaxConcReq)

\* the files whose chunks are sent to the server alone
FileHashes == {"hA", "hB"}

\* the files the server can hold
StoredHashes == {"hA", "hB", "hD"}

FileSizeOf(h) ==
    CASE h = "hA" -> BigFileSize
      [] h = "hB" -> SmallFileSize
      [] h = "hC" -> HugeFileSize
      [] h = "hD" -> TinyFileSize

FilenameOf(h) ==
    CASE h = "hA" -> "a.bin"
      [] h = "hB" -> "b.bin"
      [] h = "hC" -> "c.bin"
      [] h = "hD" -> "d.bin"

Filenames == {FilenameOf(h) : h \in StoredHashes}

\* The bytes of a file: every MiB of every file has its own value.
ContentOf(h) ==
    [k \in 1..FileSizeOf(h) |->
        (CASE h = "hA" -> 0 [] h = "hB" -> 100 [] h = "hC" -> 200
           [] h = "hD" -> 300) + k]

MaxIndex == Ceil(Max(BigFileSize, TinyFileSize), ServerChunkSize) - 1

Indices == 0..MaxIndex

\* file.slice(offset, offset + chunkSize) of chunk `index`
SliceOf(h, index) ==
    SubSeq(ContentOf(h), index * ServerChunkSize + 1,
           Min((index + 1) * ServerChunkSize, FileSizeOf(h)))

\* The form fields of one request as the controller hands them to
\* handleChunk.  A client that follows the protocol sends Honest(h, i) for
\* the chunks of its file; the others are requests a client can also send.
Honest(h, index) ==
    [fileHash |-> h, filename |-> FilenameOf(h), hash |-> "id",
     index |-> index,
     chunk |-> IF SliceOf(h, index) = <<>> THEN <<0>> ELSE SliceOf(h, index),
     size |-> IF SliceOf(h, index) = <<>> THEN 1 ELSE Len(SliceOf(h, index)),
     totalSize |-> FileSizeOf(h)]

ChunkInfos ==
    {Honest(h, i) : h \in FileHashes, i \in Indices}
    \cup {[Honest("hB", 0) EXCEPT !.size = @ + 1]}   \* size field is wrong
    \cup {[Honest("hA", 0) EXCEPT !.size = 0]}       \* fails validation

\* the requests sent to the server that handles requests concurrently
ConcChunkInfos ==
    {Honest(h, i) : h \in FileHashes, i \in 0..1}
    \cup {[Honest("hA", 0) EXCEPT !.size = 0]}

NoInfo ==
    [fileHash |-> "", filename |-> "", hash |-> "", index |-> 0,
     chunk |-> <<>>, size |-> 0, totalSize |-> 0]

\* One handleChunk call.  pc names the await the call is suspended at.
IdleReq ==
    [pc |-> "idle", info |-> NoInfo, chunks |-> <<>>, i |-> 0,
     ino |-> 0, pos |-> 0, err |-> "", status |-> "", uploaded |-> 0]

Absent == <<-1>>

\* validateChunkParams: "" when the parameters pass, else the check that
\* failed.  index, size and totalSize are numbers and chunk is a Buffer in
\* every request of ChunkInfos.
validateChunkParams(info) ==
    IF info.fileHash = "" THEN "invalid fileHash"
    ELSE IF info.filename = "" THEN "invalid filename"
    ELSE IF info.hash = "" THEN "invalid hash"
    ELSE IF info.size <= 0 THEN "invalid size"
    ELSE IF info.totalSize <= 0 THEN "invalid totalSize"
    ELSE ""

ValidationErrors ==
    {"invalid fileHash", "invalid filename", "invalid hash", "invalid size",
     "invalid totalSize"}

\* The text of a form field, as a sequence of characters
FormChars == {"-", "0", "1", "a"}

FieldTexts == UNION {[1..n -> FormChars] : n \in 0..MaxFieldLen}

IsDigit(c) == c \in {"0", "1"}

DigitValue(c) == IF c = "1" THEN 1 ELSE 0

\* the digits at the head of `text`
RECURSIVE LeadingDigits(_)
LeadingDigits(text) ==
    IF text = <<>> \/ ~IsDigit(Head(text)) THEN <<>>
    ELSE <<Head(text)>> \o LeadingDigits(Tail(text))

RECURSIVE DecimalValue(_)
DecimalValue(digits) ==
    IF digits = <<>> THEN 0
    ELSE 10 * DecimalValue(SubSeq(digits, 1, Len(digits) - 1))
         + DigitValue(digits[Len(digits)])

\* parseInt(text, 10): an optional sign, then the longest run of digits;
\* what follows the digits is ignored; NaN when there is no digit
parseInt(text) ==
    LET negative == text # <<>> /\ Head(text) = "-"
        digits == LeadingDigits(IF negative THEN Tail(text) ELSE text)
    IN  IF digits = <<>> THEN NaN
        ELSE NumberValue(IF negative THEN 0 - DecimalValue(digits)
                         ELSE DecimalValue(digits))

\* typeof v !== 'number': false for every result of parseInt, NaN included
NotOfTypeNumber(v) == FALSE

\* v <= 0: false when v is NaN
AtMostZero(v) == ~v.nan /\ v.n <= 0

\* The forms a client can post: the three identifiers present or empty, the
\* three numeric fields any text
Forms ==
    [fileHash : {"", "hA"}, filename : {"", "a.bin"}, hash : {"", "id"},
     index : FieldTexts, size : FieldTexts, totalSize : FieldTexts]

\* UploadController.uploadChunk: the fields handed to handleChunk
ParsedForm(form) ==
    [fileHash |-> form.fileHash, filename |-> form.filename,
     hash |-> form.hash, index |-> parseInt(form.index),
     size |-> parseInt(form.size), totalSize |-> parseInt(form.totalSize)]

\* validateChunkParams on the fields of the controller (chunk is the Buffer
\* of the uploaded file): "" when they pass, else the check that failed
validateParsedParams(p) ==
    IF p.fileHash = "" THEN "invalid fileHash"
    ELSE IF p.filename = "" THEN "invalid filename"
    ELSE IF NotOfTypeNumber(p.index) THEN "invalid index"
    ELSE IF p.hash = "" THEN "invalid hash"
    ELSE IF NotOfTypeNumber(p.size) \/ AtMostZero(p.size)
         THEN "invalid size"
    ELSE IF NotOfTypeNumber(p.totalSize) \/ AtMostZero(p.totalSize)
         THEN "invalid totalSize"
    ELSE ""

\* One function of the program called alone: its argument, and its result
\* once it has returned
NoCall == [pc |-> "none", arg |-> <<>>, out |-> <<>>]

\* this.db.find({ fileHash })
findChunks(store, h) == {rec \in store : rec.fileHash = h}

\* this.db.remove({ fileHash, index }, { multi: true })
removeChunkByIndexNothing(store, h, index) == store

removeChunkByIndex(store, h, index) ==
    {rec \in store : ~(rec.fileHash = h /\ rec.index = index)}

\* this.db.remove({ fileHash }, { multi: true })
removeChunksKeepsAll(store, h) == store

removeChunks(store, h) == {rec \in store : rec.fileHash # h}

\* this.db.insert({ ...chunkRecord, timestamp }): the store gives every
\* document its own _id; the model uses the number of the request.
insertChunk(store, r, info) ==
    store \cup {[id |-> r, fileHash |-> info.fileHash,
                 filename |-> info.filename, index |-> info.index,
                 size |-> info.size, totalSize |-> info.totalSize]}

\* records.sort((a, b) => a.index - b.index)
RECURSIVE SortByArrival(_)
SortByArrival(recs) ==
    IF recs = {} THEN <<>>
    ELSE LET first == CHOOSE x \in recs : \A y \in recs : x.id <= y.id
         IN  <<first>> \o SortByArrival(recs \ {first})

RECURSIVE SortByIndex(_)
SortByIndex(recs) ==
    IF recs = {} THEN <<>>
    ELSE LET first == CHOOSE x \in recs : \A y \in recs :
                          \/ x.index < y.index
                          \/ (x.index = y.index /\ x.id <= y.id)
         IN  <<first>> \o SortByIndex(recs \ {first})

\* Math.ceil(totalSize / chunkSize)
expectedChunksCount(totalSize) == Ceil(totalSize, ServerChunkSize)

\* indices.every((index, i) => index === i) on the sorted records
isSequenceCompleteCountOnly(sorted) == TRUE

isSequenceComplete(sorted) ==
    \A k \in 1..Len(sorted) : sorted[k].index = k - 1

\* chunks.reduce((acc, chunk) => acc + chunk.size, 0)
RECURSIVE SumSizes(_)
SumSizes(sorted) ==
    IF sorted = <<>> THEN 0 ELSE Head(sorted).size + SumSizes(Tail(sorted))

\* A write of `data` at offset `pos` of a file
WriteAt(content, pos, data) ==
    LET padded == IF Len(content) < pos
                  THEN content \o [k \in 1..(pos - Len(content)) |-> 0]
                  ELSE content
    IN  SubSeq(padded, 1, pos) \o data \o
        SubSeq(padded, pos + Len(data) + 1, Len(padded))

\* ========================================================================
\* Client: retryOperation (utils/async.ts)
\* ========================================================================
\* for (let i = 1; i < maxRetries; i += 1): after i failed attempts another
\* attempt is made when i < maxRetries
AnotherAttempt(i, maxRetries) == ~maxRetries.nan /\ i < maxRetries.n

RetryIds == 1..MaxRetryCalls

\* The arguments after `operation`, as the callers write them: none
\* (types/utils.ts, retryOperation(async () => ..)), or one options object
\* { maxAttempts, retryDelay, onError } (FileUploader.tsx, utils/async.ts).
RetryArgs ==
    {[form |-> "omitted", maxAttempts |-> 0]}
        \cup {[form |-> "options", maxAttempts |-> k] : k \in 1..MaxAttempts}

\* the errors an attempt can fail with
RetryErrors == {"e1", "e2"}

\* maxRetries = 3: the default when the argument is omitted; an options
\* object is bound to maxRetries as it is, and ToNumber of it is NaN
maxRetriesOf(arg) ==
    IF arg.form = "omitted" THEN NumberValue(3) ELSE NaN

\* delay = 1000, in seconds: the third argument is never given
delayOf(arg) == 1

IdleRetry ==
    [pc |-> "idle", arg |-> [form |-> "omitted", maxAttempts |-> 0],
     i |-> 0, invocations |-> 0, failures |-> 0, onErrorCalls |-> 0,
     lastError |-> "", outcome |-> "", waited |-> 0]

\* catch (..) { lastError = ..; } and the head of the for loop for the next
\* i: another round (the setTimeout), or past the loop, throw lastError
RetryFailed(q, e) ==
    LET q1 == [q EXCEPT !.lastError = e, !.failures = @ + 1, !.i = @ + 1]
    IN  IF AnotherAttempt(q1.i, maxRetriesOf(q.arg))
        THEN [q1 EXCEPT !.pc = "delay"]
        ELSE [q1 EXCEPT !.pc = "done", !.outcome = "thrown"]

\* ========================================================================
\* Client: FileUploader (components/FileUploader.tsx), utils/upload.ts,
\* workers/fileChunkWorker.ts
\* ========================================================================
\* const CHUNK_SIZE = 1024 * 1024 * 2, in MiB
CHUNK_SIZE == 2

\* asyncPool(3, chunks, ..)
UploadConcurrency == 3

\* retryOperation(async () => {..}, { maxAttempts: MAX_RETRIES, onError }):
\* the second argument is an object where retryOperation takes the number
\* maxRetries; as a number the object is NaN.
UploadRetryArg == NaN

CallIds == 1..MaxCalls

\* the files the user picks in the uploader
UploadFiles == {"hC", "hD"}

\* const chunkId = `${fileId}-${offset}`
ChunkId(f, offset) == <<f, offset>>

\* The worker's generator processFileChunks: slices at offsets 0, chunkSize,
\* 2 * chunkSize, .. below file.size; totalChunks of them reach the caller.
RECURSIVE GenerateChunks(_, _, _)
GenerateChunks(f, offset, chunkSize) ==
    IF offset < FileSizeOf(f)
    THEN <<[chunk |-> SubSeq(ContentOf(f), offset + 1,
                             Min(offset + chunkSize, FileSizeOf(f))),
            index |-> offset \div chunkSize,
            id    |-> ChunkId(f, offset)]>>
         \o GenerateChunks(f, offset + chunkSize, chunkSize)
    ELSE <<>>

\* const batchSize = 5
batchSize == 5

\* the bytes of a file of `size` bytes given to the worker alone
BytesOf(size) == [k \in 1..size |-> k]

\* file.slice(offset, offset + chunkSize)
fileSliceOneMore(content, offset, chunkSize) ==
    SubSeq(content, offset + 1, Min(offset + chunkSize + 1, Len(content)))

fileSlice(content, offset, chunkSize) ==
    SubSeq(content, offset + 1, Min(offset + chunkSize, Len(content)))

\* The worker and the promise of processFileChunks (utils/upload.ts) before
\* the worker has run
NewWorker(size, chunkSize) ==
    [offset |-> 0, totalChunks |-> Ceil(size, chunkSize),
     processedChunks |-> 0, currentBatch |-> <<>>, running |-> TRUE,
     posted |-> <<>>, allChunks |-> <<>>, promise |-> "pending",
     result |-> <<>>]

\* uploadChunk: the form fields of the POST /api/upload/chunk of one chunk
UploadRequest(f, ch) ==
    [fileHash |-> f, filename |-> FilenameOf(f), hash |-> "id",
     index |-> ch.index, chunk |-> ch.chunk, size |-> Len(ch.chunk),
     totalSize |-> FileSizeOf(f)]

\* What an uploadChunk call ends with: the status of the server's reply, or
\* "error" when axios throws (no reply, or a reply that is not 2xx).
UploadReplies == {"uploading", "complete", "error"}

\* response.status === 'uploading' || response.status === 'complete'
IsAck(resp) == resp \in {"uploading", "complete"}

\* if (uploadedChunksRef.current.has(id))
HasUploadedAlways(ref, id) == TRUE

HasUploaded(ref, id) == id \in ref

\* One handleUpload call.
\*   pc            "chunking": awaits processFileChunks; "pool": awaits
\*                 asyncPool; "done": returned
\*   file, chunks  the file and the chunks the worker made of it
\*   pool          the asyncPool call over the chunks
\*   completed     the local `completed`
\*   failedChunks  the local Set `failedChunks`
\*   errOf[k]      the error the mapper of item k threw
\*   retrying[k]   retryOperation of item k waits for its delay
\* and, as a record of what happened,
\*   sends[k]      number of POSTs made for item k by this call
\*   acked         items whose POST of this call was acknowledged
\*   ackSince      items acknowledged to the client, by a POST of any call
\*                 for the same file, while this call was running
\*   skipped       items this call skipped as already uploaded
\*   ackedAtEnd    `acked` when the call ended
\*   resumes       items acknowledged to an earlier call for the same file
\*                 before that call ended in failure
\*   reported      how the call ended: "success", or the error it showed
\*   reportedCount the number in the message of the "count" error
\*   failedAtEnd   the size of failedChunks when the call ended
\*   cancelled     handleCancel was invoked while the call was running
\*   postsAfterCancel  number of POSTs the call made after that
IdleCall ==
    [pc |-> "idle", file |-> "", chunks |-> <<>>,
     pool |-> NewPool(UploadConcurrency, 0),
     completed |-> 0, failedChunks |-> {}, errOf |-> <<>>, retrying |-> {},
     sends |-> <<>>, acked |-> {}, ackSince |-> {}, skipped |-> {},
     resumes |-> {}, reported |-> "", reportedCount |-> 0,
     failedAtEnd |-> 0, ackedAtEnd |-> {}, cancelled |-> FALSE,
     postsAfterCancel |-> 0, inflight |-> <<>>]

Running(cr) == cr.pc \in {"chunking", "pool"}

\* the POSTs made so far by the calls of `calls`
RECURSIVE SumSends(_)
SumSends(sends) ==
    IF sends = <<>> THEN 0 ELSE Head(sends) + SumSends(Tail(sends))

RECURSIVE TotalPosts(_, _)
TotalPosts(calls, c) ==
    IF c = 0 THEN 0
    ELSE SumSends([k \in 1..Len(calls[c].chunks) |-> calls[c].sends[k - 1]])
         + TotalPosts(calls, c - 1)

\* Errors that reach the catch of handleUpload, and their `name`
ErrorName(kind) ==
    CASE kind = "cancelled" -> "Error"       \* new Error(<upload cancelled>)
      [] kind = "count"     -> "Error"       \* new Error(`${n} <chunks failed>`)
      [] kind = "worker"    -> "Error"       \* processFileChunks rejected
      [] kind = "network"   -> "AxiosError"  \* thrown by axios.post

\* message.success / message.error / message.info
Toast(type, text) == [type |-> type, text |-> text]

\* The part of the component's state a mapper or the end of handleUpload
\* changes.
Component(ref, ctrl, ab, upl, prog, msgs) ==
    [uploadedChunksRef |-> ref, abortControllerRef |-> ctrl, aborted |-> ab,
     uploading |-> upl, progress |-> prog, messages |-> msgs]

\* The mapper up to its first await, for each item: it throws when the
\* upload was cancelled, returns when the chunk is known as uploaded, and
\* else posts the chunk.
UploadImm(cr, g) ==
    [k \in 0..Len(cr.chunks)-1 |->
        IF g.abortControllerRef = 0 THEN "rejected"
        ELSE IF HasUploaded(g.uploadedChunksRef, cr.chunks[k + 1].id)
             THEN "fulfilled"
             ELSE "pending"]

\* Math.floor((completed / totalChunks) * 100)
ProgressOf(completed, totalChunks) == (completed * 100) \div totalChunks

\* handleUpload after `await asyncPool(..)`: the failedChunks check, the
\* success message, catch and finally.
FinishUpload(cr, g, outcome) ==
    [cr |-> [cr EXCEPT !.pc = "done",
                       !.reported = outcome,
                       !.reportedCount = IF outcome = "count"
                                         THEN Cardinality(cr.failedChunks)
                                         ELSE 0,
                       !.failedAtEnd = Cardinality(cr.failedChunks),
                       !.ackedAtEnd = cr.acked],
     g  |-> Component(
              {},
              0,
              IF g.abortControllerRef # 0
              THEN g.aborted \cup {g.abortControllerRef} ELSE g.aborted,
              FALSE,
              0,
              IF outcome = "success"
              THEN g.messages \cup {Toast("success", "success")}
              ELSE IF ErrorName(outcome) = "AbortError" THEN g.messages
              ELSE g.messages \cup {Toast("error", outcome)})]

AfterAsyncPool(cr, g) ==
    IF cr.pool.phase = "fulfilled"
    THEN IF Cardinality(cr.failedChunks) > 0
         THEN FinishUpload(cr, g, "count")
         ELSE FinishUpload(cr, g, "success")
    ELSE FinishUpload(cr, g, cr.errOf[cr.pool.error])

\* The items whose mapper asyncPool started while its state went from p0 to
\* p1: `const promise = fn(item)` ran for them.
StartedMappersAll(p0, p1) ==
    {k \in 0..p1.cnt-1 : p1.promise[k] # "none"}

StartedMappers(p0, p1) ==
    {k \in 0..p1.cnt-1 : p0.promise[k] = "none" /\ p1.promise[k] # "none"}

\* The mappers asyncPool started while its state went from p0 to p1 ran up
\* to their first await: a skipped chunk is counted, a chunk to upload is
\* posted.  When the asyncPool call settled, handleUpload goes on.
MappersStarted(cr, g, p0, p1) ==
    LET items == 0..p1.cnt-1
        started == StartedMappers(p0, p1)
        skippedNow == {k \in started : p1.promise[k] = "fulfilled"}
        sentNow == {k \in started : p1.promise[k] = "pending"}
        thrownNow == {k \in started : p1.promise[k] = "rejected"}
        completed == cr.completed + Cardinality(skippedNow)
        cr1 == [cr EXCEPT
                  !.pool = p1,
                  !.completed = completed,
                  !.skipped = @ \cup skippedNow,
                  !.sends = [k \in items |->
                               IF k \in sentNow THEN cr.sends[k] + 1
                               ELSE cr.sends[k]],
                  !.inflight = [k \in items |->
                               IF k \in sentNow THEN cr.inflight[k] + 1
                               ELSE cr.inflight[k]],
                  !.errOf = [k \in items |->
                               IF k \in thrownNow THEN "cancelled"
                               ELSE cr.errOf[k]],
                  !.postsAfterCancel =
                      IF cr.cancelled THEN @ + Cardinality(sentNow) ELSE @]
        g1 == IF skippedNow = {} THEN g
              ELSE [g EXCEPT !.progress = ProgressOf(completed, p1.cnt)]
    IN  IF cr.pc = "pool" /\ Settled(p1.phase)
        THEN AfterAsyncPool(cr1, g1)
        ELSE [cr |-> cr1, g |-> g1]

\* ========================================================================
\* Client: downloadFileWithChunks (utils/download.ts)
\* ========================================================================
\* chunkSize = 1024 * 1024 * 2 by default, and as FileList passes it; in MiB
DownloadChunkSize == 2

\* retryOperation(operation, { maxAttempts: retries, retryDelay, onError }):
\* as in the uploader, an object where the number maxRetries is taken
DownloadRetryArg == NaN

\* createChunks(fileSize, chunkSize): the loop from `start`, with
\* `index` chunks pushed so far
RECURSIVE createChunksFromWide(_, _, _, _)
createChunksFromWide(start, index, fileSize, chunkSize) ==
    IF start < fileSize
    THEN LET end == Min(start + chunkSize, fileSize - 1)
         IN  <<[start |-> start, end |-> end, index |-> index]>>
             \o createChunksFromWide(end + 1, index + 1, fileSize, chunkSize)
    ELSE <<>>

RECURSIVE createChunksFrom(_, _, _, _)
createChunksFrom(start, index, fileSize, chunkSize) ==
    IF start < fileSize
    THEN LET end == Min(start + chunkSize - 1, fileSize - 1)
         IN  <<[start |-> start, end |-> end, index |-> index]>>
             \o createChunksFrom(end + 1, index + 1, fileSize, chunkSize)
    ELSE <<>>

createChunks(fileSize, chunkSize) ==
    createChunksFrom(0, 0, fileSize, chunkSize)

\* chunksData.sort((a, b) => a.chunk.index - b.chunk.index), then the Blob
\* of the data in that order
RECURSIVE BlobSortedByIndex(_)
BlobSortedByIndex(chunksData) ==
    IF chunksData = <<>> THEN <<>>
    ELSE LET k == CHOOSE x \in 1..Len(chunksData) :
                     \A y \in 1..Len(chunksData) :
                        \/ chunksData[x].index < chunksData[y].index
                        \/ (chunksData[x].index = chunksData[y].index
                            /\ x <= y)
         IN  chunksData[k].data
             \o BlobSortedByIndex(
                   SubSeq(chunksData, 1, k - 1)
                   \o SubSeq(chunksData, k + 1, Len(chunksData)))

\* One downloadFileWithChunks call.
\*   pc             "head": awaits getFileSize; "pool": awaits asyncPool;
\*                  "done": settled
\*   filename, streamDownload, concurrency   the options of the call
\*   fileSize, chunks   the probed size and the ranges made of it
\*   pool           the asyncPool call over the ranges
\*   writer         the StreamSaver writer: "none", "open" or "closed"
\*   output         the bytes given to writer.write, in the order of the calls
\*   writing        the ranges whose mapper awaits writer.write
\*   chunksData     buffered mode: the array chunksData
\*   downloadedBytes, progress   the progress bookkeeping
\*   saved          the bytes of the file the user gets, Absent before
\*   result         "ok" when the call fulfilled, "error" when it rejected
\*   writes         the indices of the ranges in the order they were written
\*   aborted        signal.aborted
\*   head           how the size probe ended: "" before, "failed", "noLength"
\*                  (a response without Content-Length) or "length"
\*   thrown         thrown[k], what the mapper of range k threw, "" if nothing
\*   error          what the call rejected with, "" if it did not:
\*                  "cancelled", "noSize", "probeFailed": the Errors the
\*                  function makes; "request": the error of a range request;
\*                  "axiosCancel": the error of a request axios cancelled;
\*                  "write": what a rejected writer.write gives
\* (writer is "aborted" after writer.abort().)
IdleDownload ==
    [pc |-> "idle", filename |-> "", streamDownload |-> TRUE,
     concurrency |-> 1, fileSize |-> 0, chunks |-> <<>>,
     pool |-> NewPool(1, 0), writer |-> "none", output |-> <<>>,
     writing |-> {}, chunksData |-> <<>>, downloadedBytes |-> 0,
     progress |-> 0, saved |-> Absent, result |-> "", writes |-> <<>>,
     aborted |-> FALSE, head |-> "", thrown |-> <<>>, error |-> ""]

\* The mapper up to its first await: with the signal aborted it throws the
\* cancellation Error, otherwise it requests its range.
DownloadImm(d) ==
    [k \in 0..Len(d.chunks)-1 |-> IF d.aborted THEN "rejected" ELSE "pending"]

\* getFileSize(url, signal) of a response: the Content-Length as a number,
\* 0 without the header.
getFileSize(hasLength, length) == IF hasLength THEN length ELSE 0

\* if (fileSize === 0) throw ..
SizeUnknownNever(fileSize) == FALSE

SizeUnknown(fileSize) == fileSize = 0

\* The catch of downloadFileWithChunks: a cancellation (axios.isCancel, or
\* the message of the cancellation Error) is thrown as a new cancellation
\* Error, anything else as it is.
DownloadCatch(error) ==
    IF error \in {"axiosCancel", "cancelled"} THEN "cancelled" ELSE error

\* FileList, the catch of handleDownload: message.error('下载失败') for an
\* Error whose message is not the cancellation's.  What a rejected
\* writer.write gives after writer.abort() is the abort reason, undefined.
FailureMessageShown(d) ==
    d.result = "error" /\ d.error \in {"noSize", "probeFailed", "request"}

\* updateProgress(chunkSize)
updateProgress(d, size) ==
    [d EXCEPT !.downloadedBytes = @ + size,
              !.progress = ((d.downloadedBytes + size) * 100) \div d.fileSize]

\* downloadFileWithChunks after `await asyncPool(..)`: writer.close() or the
\* Blob and the click on its link; the catch throws the error again.
\* (writer.close() of a writer that was aborted and released does nothing
\* to the file and its rejection is not awaited.)
AfterDownloadPool(d) ==
    IF d.pool.phase = "fulfilled"
    THEN IF d.streamDownload
         THEN IF d.writer = "aborted"
              THEN [d EXCEPT !.pc = "done", !.result = "ok"]
              ELSE [d EXCEPT !.pc = "done", !.writer = "closed",
                             !.saved = d.output, !.result = "ok"]
         ELSE [d EXCEPT !.pc = "done",
                        !.saved = BlobSortedByIndex(d.chunksData),
                        !.result = "ok"]
    ELSE [d EXCEPT !.pc = "done", !.result = "error",
                   !.error = DownloadCatch(d.thrown[d.pool.error + 1])]

\* The pool went on to state p1 after one of its mappers settled; the
\* mappers p1 started with the signal aborted threw the cancellation Error.
DownloadPoolMoved(d, p1) ==
    LET d1 == [d EXCEPT !.pool = p1,
                        !.thrown = [j \in 1..Len(d.chunks) |->
                            IF (d.pool.cnt = 0
                                \/ d.pool.promise[j - 1] = "none")
                               /\ p1.promise[j - 1] = "rejected"
                            THEN "cancelled" ELSE d.thrown[j]]]
    IN  IF d.pc = "pool" /\ Settled(p1.phase)
        THEN AfterDownloadPool(d1) ELSE d1

\* ========================================================================
\* State
\* ========================================================================
VARIABLES
    apPc,       \* asyncPool alone: "idle" before the call, "called" after
    apFn,       \* asyncPool alone: what fn does for each item (see StartMapper)
    ap,         \* asyncPool alone: the state of the call
    req,        \* server: the handleChunk calls, by request number
    db,         \* server: the documents of chunks.db
    dirExists,  \* server: dirExists[h], the chunk directory uploads/<h> exists
    chunkFile,  \* server: chunkFile[h][i], content of uploads/<h>/<i>, or Absent
    paths,      \* server: paths[f], inode of uploads/<f>, 0 when there is none
    inodes,     \* server: content of the files that were created in uploads/
    call,       \* uploader: the handleUpload calls, by call number
    uploadedChunksRef,   \* uploader: ids of the chunks known as uploaded
    abortControllerRef,  \* uploader: the AbortController in the ref, as the
                         \* number of the call that made it; 0 for null
    aborted,    \* uploader: the controllers whose abort() was called
    uploading,  \* uploader: the state `uploading`
    progress,   \* uploader: the state `progress`
    messages,   \* uploader: the toasts shown so far
    net,        \* the chunk POSTs the server has received and not yet
                \* answered: [call, item, req]
    dl,         \* download: the downloadFileWithChunks call
    rt,         \* retryOperation alone: the calls, by call number
    fc          \* a function called alone: [pc, arg, out]

poolVars == <<apPc, apFn, ap>>

serverVars == <<req, db, dirExists, chunkFile, paths, inodes>>

clientVars ==
    <<call, uploadedChunksRef, abortControllerRef, aborted, uploading,
      progress, messages>>

netVars == <<net>>

dlVars == <<dl>>

rtVars == <<rt>>

fcVars == <<fc>>

vars ==
    <<apPc, apFn, ap, req, db, dirExists, chunkFile, paths, inodes,
      call, uploadedChunksRef, abortControllerRef, aborted, uploading,
      progress, messages, net, dl, rt, fc>>

InitServerVars ==
    /\ req = [r \in ReqIds |-> IdleReq]
    /\ db = {}
    /\ dirExists = [h \in StoredHashes |-> FALSE]
    /\ chunkFile = [h \in StoredHashes |-> [i \in Indices |-> Absent]]
    /\ paths = [f \in Filenames |-> 0]
    /\ inodes = [r \in ReqIds |-> <<>>]

InitPoolVars ==
    /\ apPc = "idle"
    /\ ap = NewPool(1, 0)
    /\ apFn = <<>>

InitClientVars ==
    /\ call = [c \in CallIds |-> IdleCall]
    /\ uploadedChunksRef = {}
    /\ abortControllerRef = 0
    /\ aborted = {}
    /\ uploading = FALSE
    /\ progress = 0
    /\ messages = {}

InitNetVars == net = {}

InitDownloadVars == dl = IdleDownload

InitRetryVars == rt = [r \in RetryIds |-> IdleRetry]

InitFcVars == fc = NoCall

\* ------------------------------------------------------------------------
\* asyncPool called alone, with mappers that settle in any order
\* ------------------------------------------------------------------------
FnKinds == {"pending", "fulfilled", "rejected"}

InitPool ==
    /\ apPc = "idle"
    /\ \E c \in 1..MaxConcurrency, n \in 0..MaxItems :
          /\ ap = NewPool(c, n)
          /\ apFn \in [0..n-1 -> FnKinds]
    /\ InitServerVars
    /\ InitClientVars
    /\ InitNetVars
    /\ InitDownloadVars
    /\ InitRetryVars
    /\ InitFcVars

AsyncPoolCall ==
    /\ apPc = "idle"
    /\ apPc' = "called"
    /\ ap' = asyncPool(ap.concurrency, ap.cnt, apFn)
    /\ UNCHANGED <<apFn, serverVars, clientVars, netVars, dlVars, rtVars, fcVars>>

MapperSettle(i, outcome) ==
    /\ apPc = "called"
    /\ ap.promise[i] = "pending"
    /\ ap' = PoolSettle(ap, i, outcome, apFn)
    /\ UNCHANGED <<apPc, apFn, serverVars, clientVars, netVars, dlVars, rtVars, fcVars>>

NextPool ==
    \/ AsyncPoolCall
    \/ \E i \in 0..ap.cnt-1 : MapperSettle(i, "fulfilled")
    \/ \E i \in 0..ap.cnt-1 : MapperSettle(i, "rejected")

SpecPool == InitPool /\ [][NextPool]_vars

\* Every mapper that was invoked settles at some time, and the call is made.
SpecPoolFair == SpecPool /\ WF_vars(NextPool)

\* ------------------------------------------------------------------------
\* retryOperation alone: calls with the arguments of the call sites, on
\* operations that fulfil or reject at any time
\* ------------------------------------------------------------------------
\* retryOperation(operation, ..) up to its first await: operation() is called
RetryCall(r, arg) ==
    /\ rt[r].pc = "idle"
    /\ \A k \in 1..(r - 1) : rt[k].pc # "idle"
    /\ rt' = [rt EXCEPT ![r] = [IdleRetry EXCEPT !.pc = "operation",
                                                 !.arg = arg,
                                                 !.invocations = 1]]

\* return await operation(): the promise of the operation is fulfilled
OperationFulfils(r) ==
    /\ rt[r].pc = "operation"
    /\ rt' = [rt EXCEPT ![r].pc = "done", ![r].outcome = "returned"]

\* the promise of the operation is rejected with e: the catch, then the for
\* loop
OperationRejects(r, e) ==
    /\ rt[r].pc = "operation"
    /\ rt' = [rt EXCEPT ![r] = RetryFailed(@, e)]

\* setTimeout(resolve, delay * i) fires: return await operation()
DelayElapsed(r) ==
    /\ rt[r].pc = "delay"
    /\ rt' = [rt EXCEPT ![r].pc = "operation",
                        ![r].invocations = @ + 1,
                        ![r].waited = @ + delayOf(rt[r].arg) * rt[r].i]

InitRetry ==
    /\ InitPoolVars
    /\ InitServerVars
    /\ InitClientVars
    /\ InitNetVars
    /\ InitDownloadVars
    /\ InitRetryVars
    /\ InitFcVars

notRetry == <<poolVars, serverVars, clientVars, netVars, dlVars, fcVars>>

NextRetry ==
    \/ \E r \in RetryIds, arg \in RetryArgs :
          RetryCall(r, arg) /\ UNCHANGED notRetry
    \/ \E r \in RetryIds : OperationFulfils(r) /\ UNCHANGED notRetry
    \/ \E r \in RetryIds, e \in RetryErrors :
          OperationRejects(r, e) /\ UNCHANGED notRetry
    \/ \E r \in RetryIds : DelayElapsed(r) /\ UNCHANGED notRetry

SpecRetry == InitRetry /\ [][NextRetry]_vars

\* ------------------------------------------------------------------------
\* The validation of a posted form alone: UploadController.uploadChunk up
\* to the return of validateChunkParams in handleChunk
\* ------------------------------------------------------------------------
notFc == <<poolVars, serverVars, clientVars, netVars, dlVars, rtVars>>

InitValidate ==
    /\ InitPoolVars
    /\ InitServerVars
    /\ InitClientVars
    /\ InitNetVars
    /\ InitDownloadVars
    /\ InitRetryVars
    /\ \E form \in Forms : fc = [pc |-> "posted", arg |-> form, out |-> <<>>]

ValidateForm ==
    /\ fc.pc = "posted"
    /\ fc' = [fc EXCEPT !.pc = "returned",
                        !.out = [fields |-> ParsedForm(fc.arg),
                                 error |-> validateParsedParams(
                                               ParsedForm(fc.arg))]]
    /\ UNCHANGED notFc

NextValidate == ValidateForm

SpecValidate == InitValidate /\ [][NextValidate]_vars

\* ------------------------------------------------------------------------
\* The chunk worker and processFileChunks of the client alone, on a file of
\* any size with any chunk size
\* ------------------------------------------------------------------------
InitWorker ==
    /\ InitPoolVars
    /\ InitServerVars
    /\ InitClientVars
    /\ InitNetVars
    /\ InitDownloadVars
    /\ InitRetryVars
    /\ \E size \in 0..MaxFileBytes, chunkSize \in 1..MaxChunkBytes :
          fc = [pc |-> "worker",
                arg |-> [size |-> size, chunkSize |-> chunkSize],
                out |-> NewWorker(size, chunkSize)]

\* One pass of the worker's while (true) loop: chunkGenerator.next() yields
\* the slice at `offset`, or is done; a full batch, or the batch that ends
\* the file, is posted.
WorkerNext ==
    LET w == fc.out
        size == fc.arg.size
        chunkSize == fc.arg.chunkSize
    IN  /\ fc.pc = "worker"
        /\ w.running
        /\ IF w.offset < size
           THEN LET chunk == [chunk |-> fileSlice(BytesOf(size), w.offset,
                                                 chunkSize),
                              index |-> w.offset \div chunkSize,
                              id    |-> w.offset]
                    batch == Append(w.currentBatch, chunk)
                    processed == w.processedChunks + 1
                    post == Len(batch) >= batchSize
                                \/ processed = w.totalChunks
                IN  fc' = [fc EXCEPT
                      !.out.offset = @ + chunkSize,
                      !.out.processedChunks = processed,
                      !.out.currentBatch = IF post THEN <<>> ELSE batch,
                      !.out.posted =
                          IF post
                          THEN Append(@, [error |-> FALSE,
                                          chunks |-> batch,
                                          totalChunks |-> w.totalChunks,
                                          processedChunks |-> processed,
                                          isComplete |->
                                              processed = w.totalChunks])
                          ELSE @]
           ELSE fc' = [fc EXCEPT !.out.running = FALSE]
        /\ UNCHANGED notFc

\* chunk.arrayBuffer() rejects: the catch blocks post the error message
WorkerReadFails ==
    LET w == fc.out
    IN  /\ fc.pc = "worker"
        /\ w.running
        /\ w.offset < fc.arg.size
        /\ fc' = [fc EXCEPT
              !.out.running = FALSE,
              !.out.posted = Append(@, [error |-> TRUE, chunks |-> <<>>,
                                        totalChunks |-> w.totalChunks,
                                        processedChunks |->
                                            w.processedChunks,
                                        isComplete |-> FALSE])]
        /\ UNCHANGED notFc

\* worker.onmessage of processFileChunks (utils/upload.ts), for the oldest
\* message posted
ClientOnMessage ==
    LET w == fc.out
        msg == Head(w.posted)
        all == w.allChunks \o msg.chunks
    IN  /\ fc.pc = "worker"
        /\ w.posted # <<>>
        /\ IF msg.error
           THEN fc' = [fc EXCEPT !.pc = "terminated",
                                 !.out.posted = <<>>,
                                 !.out.running = FALSE,
                                 !.out.promise = "rejected"]
           ELSE IF msg.isComplete
                THEN fc' = [fc EXCEPT
                       !.pc = "terminated",
                       !.out.posted = <<>>,
                       !.out.running = FALSE,
                       !.out.allChunks = all,
                       !.out.promise = "fulfilled",
                       !.out.result = [chunks |-> all,
                                       totalChunks |-> msg.totalChunks]]
                ELSE fc' = [fc EXCEPT !.out.posted = Tail(@),
                                      !.out.allChunks = all]
        /\ UNCHANGED notFc

NextWorker ==
    \/ WorkerNext
    \/ WorkerReadFails
    \/ ClientOnMessage

SpecWorker == InitWorker /\ [][NextWorker]_vars

\* The worker runs on and the messages it posted are delivered.
SpecWorkerFair == SpecWorker /\ WF_vars(NextWorker)

\* ------------------------------------------------------------------------
\* createChunks alone, on any file size and any chunk size, also a chunk
\* size above the file size
\* ------------------------------------------------------------------------
InitCreateChunks ==
    /\ InitPoolVars
    /\ InitServerVars
    /\ InitClientVars
    /\ InitNetVars
    /\ InitDownloadVars
    /\ InitRetryVars
    /\ \E fileSize \in 0..MaxFileBytes, chunkSize \in 1..(MaxFileBytes + 1) :
          fc = [pc |-> "createChunks",
                arg |-> [fileSize |-> fileSize, chunkSize |-> chunkSize],
                out |-> <<>>]

CreateChunksReturns ==
    /\ fc.pc = "createChunks"
    /\ fc' = [fc EXCEPT !.pc = "ranges",
                        !.out = createChunks(fc.arg.fileSize,
                                             fc.arg.chunkSize)]
    /\ UNCHANGED notFc

NextCreateChunks == CreateChunksReturns

SpecCreateChunks == InitCreateChunks /\ [][NextCreateChunks]_vars


\* ------------------------------------------------------------------------
\* Server actions: one per await of handleChunk and mergeChunks
\* ------------------------------------------------------------------------
InProgress == {r \in ReqIds : req[r].pc \notin {"idle", "done"}}

\* The call returns (status "uploading" / "complete") or throws ("error").
Return(q, status, err, uploaded) ==
    [q EXCEPT !.pc = "done", !.status = status, !.err = err,
              !.uploaded = uploaded, !.chunks = <<>>, !.i = 0,
              !.ino = 0, !.pos = 0]

\* The storage of a file that has no name and no open stream is released.
Release(reqs, links, files) ==
    [x \in DOMAIN files |->
        IF \/ \E f \in Filenames : links[f] = x
           \/ \E k \in ReqIds : reqs[k].ino = x
        THEN files[x] ELSE <<>>]

\* mergeChunks, catch (err): writeStream.end(); await fs.unlink(filePath)
MergeFailNoCleanup(q, err) == Return(q, "error", err, 0)

MergeFail(q, err) ==
    [q EXCEPT !.pc = "m_unlink", !.err = err, !.chunks = <<>>, !.i = 0]

\* handleChunk up to its first await: validateChunkParams, then
\* createChunkDirectory calls fs.access.
HandleChunkStartRemovesFirst(r, info) ==
    /\ req[r].pc = "idle"
    /\ \A k \in 1..(r - 1) : req[k].pc # "idle"
    /\ LET v == validateChunkParams(info)
       IN  req' = [req EXCEPT ![r] =
                    IF v # ""
                    THEN Return([IdleReq EXCEPT !.info = info], "error", v, 0)
                    ELSE [IdleReq EXCEPT !.pc = "access", !.info = info]]
    /\ db' = removeChunkByIndex(db, info.fileHash, info.index)
    /\ UNCHANGED <<dirExists, chunkFile, paths, inodes>>

HandleChunkStart(r, info) ==
    /\ req[r].pc = "idle"
    /\ \A k \in 1..(r - 1) : req[k].pc # "idle"
    /\ LET v == validateChunkParams(info)
       IN  req' = [req EXCEPT ![r] =
                    IF v # ""
                    THEN Return([IdleReq EXCEPT !.info = info], "error", v, 0)
                    ELSE [IdleReq EXCEPT !.pc = "access", !.info = info]]
    /\ UNCHANGED <<db, dirExists, chunkFile, paths, inodes>>

\* createChunkDirectory: await fs.access(dirPath)
CreateDirAccess(r) ==
    /\ req[r].pc = "access"
    /\ req' = [req EXCEPT ![r].pc =
                  IF dirExists[req[r].info.fileHash] THEN "writeFile"
                  ELSE "mkdir"]
    /\ UNCHANGED <<db, dirExists, chunkFile, paths, inodes>>

\* createChunkDirectory: await fs.mkdir(dirPath, { recursive: true })
CreateDirMkdir(r) ==
    /\ req[r].pc = "mkdir"
    /\ dirExists' = [dirExists EXCEPT ![req[r].info.fileHash] = TRUE]
    /\ req' = [req EXCEPT ![r].pc = "writeFile"]
    /\ UNCHANGED <<db, chunkFile, paths, inodes>>

\* saveChunkFile: await fs.writeFile(filePath, content)
SaveChunkFile(r) ==
    LET info == req[r].info
    IN  /\ req[r].pc = "writeFile"
        /\ IF dirExists[info.fileHash]
           THEN /\ chunkFile' = [chunkFile EXCEPT
                                   ![info.fileHash][info.index] = info.chunk]
                /\ req' = [req EXCEPT ![r].pc = "remove"]
           ELSE /\ req' = [req EXCEPT ![r] = Return(@, "error", "save", 0)]
                /\ UNCHANGED chunkFile
        /\ UNCHANGED <<db, dirExists, paths, inodes>>

\* await this.removeChunkByIndex(fileHash, index)
RemoveOldRecord(r) ==
    /\ req[r].pc = "remove"
    /\ db' = removeChunkByIndex(db, req[r].info.fileHash, req[r].info.index)
    /\ req' = [req EXCEPT ![r].pc = "insert"]
    /\ UNCHANGED <<dirExists, chunkFile, paths, inodes>>

\* await this.insertChunk({..})
InsertRecord(r) ==
    /\ req[r].pc = "insert"
    /\ db' = insertChunk(db, r, req[r].info)
    /\ req' = [req EXCEPT ![r].pc = "find"]
    /\ UNCHANGED <<dirExists, chunkFile, paths, inodes>>

\* const uploadedChunks = await this.findChunks(fileHash), the completeness
\* check, and on a complete session mergeChunks up to its first await:
\* fsSync.createWriteStream(filePath) opens the file with flag 'w'.
FindAndCheck(r) ==
    LET info == req[r].info
        uploadedChunks == findChunks(db, info.fileHash)
        sorted == SortByIndex(uploadedChunks)
        ino == IF paths[info.filename] # 0 THEN paths[info.filename] ELSE r
    IN  /\ req[r].pc = "find"
        /\ IF Cardinality(uploadedChunks) = expectedChunksCount(info.totalSize)
           THEN IF ~isSequenceComplete(sorted)
                THEN /\ req' = [req EXCEPT
                                  ![r] = Return(@, "error", "sequence", 0)]
                     /\ UNCHANGED <<paths, inodes>>
                ELSE /\ req' = [req EXCEPT ![r].pc = "m_find",
                                           ![r].ino = ino, ![r].pos = 0]
                     /\ paths' = [paths EXCEPT ![info.filename] = ino]
                     /\ inodes' = [inodes EXCEPT ![ino] = <<>>]
           ELSE /\ req' = [req EXCEPT ![r] =
                             Return(@, "uploading", "",
                                    Cardinality(uploadedChunks))]
                /\ UNCHANGED <<paths, inodes>>
        /\ UNCHANGED <<db, dirExists, chunkFile>>

\* mergeChunks, the head of the verification loop for i = q.i, and after the
\* loop the first createReadStream(..).pipe(writeStream, { end: false })
VerifyNext(q) ==
    IF q.i < Len(q.chunks)
    THEN IF q.chunks[q.i + 1].index # q.i
         THEN MergeFail(q, "gap")
         ELSE [q EXCEPT !.pc = "m_access"]
    ELSE IF q.chunks = <<>>
         THEN [q EXCEPT !.pc = "m_final", !.i = 0]
         ELSE [q EXCEPT !.pc = "m_pipe", !.i = 0]

\* mergeChunks: const chunks = await this.findChunks(fileHash)
MergeFind(r) ==
    /\ req[r].pc = "m_find"
    /\ req' = [req EXCEPT ![r] =
                  VerifyNext([req[r] EXCEPT
                      !.chunks = SortByIndex(
                                    findChunks(db, req[r].info.fileHash)),
                      !.i = 0])]
    /\ UNCHANGED <<db, dirExists, chunkFile, paths, inodes>>

\* mergeChunks: await fs.access(join(chunkDir, `${i}`))
MergeAccess(r) ==
    /\ req[r].pc = "m_access"
    /\ req' = [req EXCEPT ![r] =
                  IF chunkFile[@.info.fileHash][@.i] # Absent
                  THEN VerifyNext([@ EXCEPT !.i = @ + 1])
                  ELSE MergeFail(@, "missing")]
    /\ UNCHANGED <<db, dirExists, chunkFile, paths, inodes>>

\* mergeChunks: the chunk file is piped into the write stream, which writes
\* at its own position
MergePipe(r) ==
    LET q == req[r]
        data == chunkFile[q.info.fileHash][q.chunks[q.i + 1].index]
    IN  /\ q.pc = "m_pipe"
        /\ IF data # Absent
           THEN /\ inodes' = [inodes EXCEPT ![q.ino] = WriteAt(@, q.pos, data)]
                /\ req' = [req EXCEPT ![r].pc = "m_stat",
                                      ![r].pos = @ + Len(data)]
           ELSE /\ req' = [req EXCEPT ![r] = MergeFail(@, "read")]
                /\ UNCHANGED inodes
        /\ UNCHANGED <<db, dirExists, chunkFile, paths>>

\* mergeChunks: const stats = await fs.stat(filePath) inside the loop; after
\* the last chunk writeStream.end() and the final fs.stat are called
MergeStat(r) ==
    LET q == req[r]
    IN  /\ q.pc = "m_stat"
        /\ req' = [req EXCEPT ![r] =
                      IF paths[q.info.filename] = 0 THEN MergeFail(q, "stat")
                      ELSE IF q.i + 1 < Len(q.chunks)
                           THEN [q EXCEPT !.pc = "m_pipe", !.i = @ + 1]
                           ELSE [q EXCEPT !.pc = "m_final", !.i = 0]]
        /\ UNCHANGED <<db, dirExists, chunkFile, paths, inodes>>

\* mergeChunks: the final fs.stat and the size verification; then fs.rm is
\* called
MergeVerifySize(r) ==
    LET q == req[r]
        link == paths[q.info.filename]
    IN  /\ q.pc = "m_final"
        /\ req' = [req EXCEPT ![r] =
                      IF link = 0 THEN MergeFail(q, "stat")
                      ELSE IF Len(inodes[link]) # SumSizes(q.chunks)
                           THEN MergeFail(q, "size")
                           ELSE [q EXCEPT !.pc = "m_rm", !.chunks = <<>>]]
        /\ UNCHANGED <<db, dirExists, chunkFile, paths, inodes>>

\* mergeChunks: await fs.rm(chunkDir, { recursive: true })
MergeRmDir(r) ==
    LET h == req[r].info.fileHash
    IN  /\ req[r].pc = "m_rm"
        /\ IF dirExists[h]
           THEN /\ dirExists' = [dirExists EXCEPT ![h] = FALSE]
                /\ chunkFile' = [chunkFile EXCEPT
                                   ![h] = [i \in Indices |-> Absent]]
                /\ req' = [req EXCEPT ![r].pc = "m_removeChunks"]
           ELSE /\ req' = [req EXCEPT ![r] = MergeFail(@, "rm")]
                /\ UNCHANGED <<dirExists, chunkFile>>
        /\ UNCHANGED <<db, paths, inodes>>

\* mergeChunks: await this.removeChunks(fileHash); return complete
MergeRemoveChunks(r) ==
    /\ req[r].pc = "m_removeChunks"
    /\ db' = removeChunks(db, req[r].info.fileHash)
    /\ req' = [req EXCEPT ![r] = Return(@, "complete", "", 0)]
    /\ inodes' = Release(req', paths, inodes)
    /\ UNCHANGED <<dirExists, chunkFile, paths>>

\* mergeChunks, catch: try { await fs.unlink(filePath) } catch {}; throw err
MergeUnlinkRemovesChunks(r) ==
    /\ req[r].pc = "m_unlink"
    /\ paths' = [paths EXCEPT ![req[r].info.filename] = 0]
    /\ db' = removeChunks(db, req[r].info.fileHash)
    /\ req' = [req EXCEPT ![r] = Return(@, "error", @.err, 0)]
    /\ inodes' = Release(req', paths', inodes)
    /\ UNCHANGED <<dirExists, chunkFile>>

MergeUnlink(r) ==
    /\ req[r].pc = "m_unlink"
    /\ paths' = [paths EXCEPT ![req[r].info.filename] = 0]
    /\ req' = [req EXCEPT ![r] = Return(@, "error", @.err, 0)]
    /\ inodes' = Release(req', paths', inodes)
    /\ UNCHANGED <<db, dirExists, chunkFile>>

ServerStep(r) ==
    \/ CreateDirAccess(r)
    \/ CreateDirMkdir(r)
    \/ SaveChunkFile(r)
    \/ RemoveOldRecord(r)
    \/ InsertRecord(r)
    \/ FindAndCheck(r)
    \/ MergeFind(r)
    \/ MergeAccess(r)
    \/ MergePipe(r)
    \/ MergeStat(r)
    \/ MergeVerifySize(r)
    \/ MergeRmDir(r)
    \/ MergeRemoveChunks(r)
    \/ MergeUnlink(r)

\* ------------------------------------------------------------------------
\* The server alone, receiving chunk requests from any clients
\* ------------------------------------------------------------------------
InitServer ==
    /\ InitPoolVars
    /\ InitServerVars
    /\ InitClientVars
    /\ InitNetVars
    /\ InitDownloadVars
    /\ InitRetryVars
    /\ InitFcVars

notServer == <<poolVars, clientVars, netVars, dlVars, rtVars, fcVars>>

\* Requests arrive at any time, also while others are being handled.
NextServer ==
    \/ \E r \in 1..MaxConcReq, info \in ConcChunkInfos :
          HandleChunkStart(r, info) /\ UNCHANGED notServer
    \/ \E r \in ReqIds : ServerStep(r) /\ UNCHANGED notServer

SpecServer == InitServer /\ [][NextServer]_vars

\* A request arrives only when the one before it has returned.
NextServerSeq ==
    \/ \E r \in 1..MaxReq, info \in ChunkInfos :
          /\ InProgress = {}
          /\ HandleChunkStart(r, info)
          /\ UNCHANGED notServer
    \/ \E r \in ReqIds : ServerStep(r) /\ UNCHANGED notServer

SpecServerSeq == InitServer /\ [][NextServerSeq]_vars

\* ------------------------------------------------------------------------
\* The server receiving the chunks of a two-chunk file concurrently
\* ------------------------------------------------------------------------
\* the requests: the two chunks of "hD"
PairInfos == {Honest("hD", i) : i \in 0..1}

NextServerPair ==
    \/ \E r \in 1..MaxConcReq, info \in PairInfos :
          HandleChunkStart(r, info) /\ UNCHANGED notServer
    \/ \E r \in ReqIds : ServerStep(r) /\ UNCHANGED notServer

SpecServerPair == InitServer /\ [][NextServerPair]_vars

\* ------------------------------------------------------------------------
\* The server with the list endpoint
\* ------------------------------------------------------------------------
\* getUploadedFiles(): readdir of the upload directory, then stat of each
\* entry that is not chunks.db; the chunk directories are dropped.  The
\* result as the size listed for each name, -1 for a name that is not
\* listed.
getUploadedFiles ==
    [f \in Filenames |->
        IF paths[f] = 0 THEN -1 ELSE Len(inodes[paths[f]])]

\* GET /api/upload/files is answered
GetUploadedFiles ==
    /\ fc' = [pc |-> "listed", arg |-> <<>>, out |-> getUploadedFiles]
    /\ UNCHANGED <<poolVars, serverVars, clientVars, netVars, dlVars, rtVars>>

\* Chunk requests one at a time, and the list endpoint at any time.
NextServerList ==
    \/ NextServerSeq
    \/ GetUploadedFiles

SpecServerList == InitServer /\ [][NextServerList]_vars

\* ------------------------------------------------------------------------
\* The server with stops of its process: one client sends the chunks of one
\* file, one request at a time, and sends again every chunk for which it
\* has no acknowledgement
\* ------------------------------------------------------------------------
RestartFile == "hD"

\* the indices the client has an acknowledgement for
Acknowledged ==
    {req[r].info.index : r \in {x \in ReqIds :
        /\ req[x].pc = "done"
        /\ req[x].status \in {"uploading", "complete"}}}

\* the requests that were cut by a stop of the process
Lost == {r \in ReqIds : req[r].pc = "done" /\ req[r].status = "lost"}

ClientSend(r, index) ==
    /\ InProgress = {}
    /\ index \notin Acknowledged
    /\ HandleChunkStart(r, Honest(RestartFile, index))

\* The process stops while request r is suspended at an await, and starts
\* again: the call and its open stream are gone, the request gets no
\* response, and what is in uploads/ and in chunks.db stays.
Crash(r) ==
    /\ r \in InProgress
    /\ Cardinality(Lost) < MaxCrashes
    /\ req' = [req EXCEPT ![r] = Return(@, "lost", "crash", 0)]
    /\ inodes' = Release(req', paths, inodes)
    /\ UNCHANGED <<db, dirExists, chunkFile, paths>>

NextRestart ==
    \/ \E r \in 1..MaxReq,
          index \in 0..(expectedChunksCount(FileSizeOf(RestartFile)) - 1) :
          ClientSend(r, index) /\ UNCHANGED notServer
    \/ \E r \in ReqIds : ServerStep(r) /\ UNCHANGED notServer
    \/ \E r \in ReqIds : Crash(r) /\ UNCHANGED notServer

\* The server goes on and the client goes on sending what is not
\* acknowledged.
SpecRestart == InitServer /\ [][NextRestart]_vars /\ WF_vars(NextRestart)

\* ------------------------------------------------------------------------
\* Uploader actions (components/FileUploader.tsx)
\* ------------------------------------------------------------------------
ComponentNow ==
    Component(uploadedChunksRef, abortControllerRef, aborted, uploading,
              progress, messages)

\* The component's state after a step of the call c
SetComponent(c, r) ==
    /\ call' = [call EXCEPT ![c] = r.cr]
    /\ uploadedChunksRef' = r.g.uploadedChunksRef
    /\ abortControllerRef' = r.g.abortControllerRef
    /\ aborted' = r.g.aborted
    /\ uploading' = r.g.uploading
    /\ progress' = r.g.progress
    /\ messages' = r.g.messages

\* beforeUpload -> handleUpload(file), up to `await processFileChunks(..)`.
\* The button that opens the file dialog is in its loading state while
\* `uploading` is true, so a call begins only when it is false.  In one run
\* the user picks the same file every time.
HandleUploadStart(c, f) ==
    /\ call[c].pc = "idle"
    /\ \A k \in 1..(c - 1) : call[k].pc # "idle" /\ call[k].file = f
    /\ uploading = FALSE
    /\ call' = [call EXCEPT ![c] =
          [IdleCall EXCEPT
             !.pc = "chunking",
             !.file = f,
             !.resumes = UNION {call[k].ackedAtEnd :
                                  k \in {x \in CallIds :
                                           /\ call[x].pc = "done"
                                           /\ call[x].file = f
                                           /\ call[x].reported
                                                \in {"network", "count"}}}]]
    /\ uploading' = TRUE
    /\ progress' = 0
    /\ uploadedChunksRef' = {}
    /\ abortControllerRef' = c
    /\ UNCHANGED <<aborted, messages>>

\* processFileChunks resolves with the chunks of the worker, and handleUpload
\* runs up to `await asyncPool(3, chunks, ..)`: the mappers of the first
\* chunks run up to their first await.  (processFileChunks of utils/upload.ts
\* resolves without a `worker` property, so workerRef.current stays empty.)
ProcessFileChunksDone(c) ==
    /\ call[c].pc = "chunking"
    /\ LET chunks == GenerateChunks(call[c].file, 0, CHUNK_SIZE)
           n == Len(chunks)
           cr == [call[c] EXCEPT !.pc = "pool",
                                 !.chunks = chunks,
                                 !.pool = NewPool(UploadConcurrency, n),
                                 !.errOf = [k \in 0..n-1 |-> ""],
                                 !.sends = [k \in 0..n-1 |-> 0],
                                 !.inflight = [k \in 0..n-1 |-> 0]]
           p1 == asyncPool(UploadConcurrency, n, UploadImm(cr, ComponentNow))
       IN  SetComponent(c, MappersStarted(cr, ComponentNow, cr.pool, p1))
    /\ TotalPosts(call', MaxCalls) <= MaxPosts

\* processFileChunks rejects (the worker reported an error): catch, finally
ProcessFileChunksFail(c) ==
    /\ call[c].pc = "chunking"
    /\ SetComponent(c, FinishUpload(call[c], ComponentNow, "worker"))

\* The POST of item k of call c ends with `resp`.  An acknowledgement is
\* recorded and counted and the mapper returns; an error goes through
\* retryOperation and then the mapper's catch, which throws it again.  The
\* pool then runs, starting the mappers of the chunks that waited.
UploadChunkResponse(c, k, resp) ==
    /\ call[c].pc \in {"pool", "done"}
    /\ call[c].pool.promise[k] = "pending"
    /\ k \notin call[c].retrying
    /\ LET cr == [call[c] EXCEPT !.inflight[k] = @ - 1]
           ch == cr.chunks[k + 1]
           g == ComponentNow
       IN  IF IsAck(resp)
           THEN LET completed == cr.completed + 1
                    g1 == [g EXCEPT
                             !.uploadedChunksRef = @ \cup {ch.id},
                             !.progress = ProgressOf(completed,
                                                     Len(cr.chunks))]
                    cr1 == [cr EXCEPT !.completed = completed,
                                      !.acked = @ \cup {k},
                                      !.ackSince = @ \cup {k}]
                    p1 == PoolSettle(cr.pool, k, "fulfilled",
                                     UploadImm(cr1, g1))
                    r == MappersStarted(cr1, g1, cr.pool, p1)
                IN  /\ call' = [x \in CallIds |->
                                  IF x = c THEN r.cr
                                  ELSE IF Running(call[x])
                                          /\ call[x].file = cr.file
                                       THEN [call[x] EXCEPT
                                               !.ackSince = @ \cup {k}]
                                       ELSE call[x]]
                    /\ uploadedChunksRef' = r.g.uploadedChunksRef
                    /\ abortControllerRef' = r.g.abortControllerRef
                    /\ aborted' = r.g.aborted
                    /\ uploading' = r.g.uploading
                    /\ progress' = r.g.progress
                    /\ messages' = r.g.messages
           ELSE IF AnotherAttempt(cr.sends[k], UploadRetryArg)
                THEN /\ call' = [call EXCEPT ![c].retrying = @ \cup {k},
                                             ![c].inflight[k] = @ - 1]
                     /\ UNCHANGED <<uploadedChunksRef, abortControllerRef,
                                    aborted, uploading, progress, messages>>
                ELSE LET cr1 == [cr EXCEPT
                                   !.failedChunks = @ \cup {ch.index},
                                   !.errOf[k] = "network"]
                         p1 == PoolSettle(cr.pool, k, "rejected",
                                          UploadImm(cr1, g))
                     IN  SetComponent(c, MappersStarted(cr1, g, cr.pool, p1))
    /\ TotalPosts(call', MaxCalls) <= MaxPosts

\* The "cancel upload" button, shown while `uploading` is true.
HandleCancel ==
    /\ uploading = TRUE
    /\ aborted' = IF abortControllerRef # 0
                  THEN aborted \cup {abortControllerRef} ELSE aborted
    /\ abortControllerRef' = 0
    /\ uploadedChunksRef' = {}
    /\ uploading' = FALSE
    /\ progress' = 0
    /\ messages' = messages \cup {Toast("info", "cancelled")}
    /\ call' = [c \in CallIds |->
                  IF Running(call[c]) THEN [call[c] EXCEPT !.cancelled = TRUE]
                  ELSE call[c]]

\* ------------------------------------------------------------------------
\* The uploader alone: every POST ends in any of the ways it can
\* ------------------------------------------------------------------------
InitUpload ==
    /\ InitPoolVars
    /\ InitServerVars
    /\ InitClientVars
    /\ InitNetVars
    /\ InitDownloadVars
    /\ InitRetryVars
    /\ InitFcVars

notUploader == <<poolVars, serverVars, netVars, dlVars, rtVars, fcVars>>

NextUpload ==
    \/ \E c \in CallIds, f \in UploadFiles :
          HandleUploadStart(c, f) /\ UNCHANGED notUploader
    \/ \E c \in CallIds :
          ProcessFileChunksDone(c) /\ UNCHANGED notUploader
    \/ \E c \in CallIds :
          ProcessFileChunksFail(c) /\ UNCHANGED notUploader
    \/ \E c \in CallIds, resp \in UploadReplies :
          \E k \in 0..Len(call[c].chunks)-1 :
             UploadChunkResponse(c, k, resp)
             /\ UNCHANGED notUploader
    \/ HandleCancel /\ UNCHANGED notUploader

SpecUpload == InitUpload /\ [][NextUpload]_vars

\* ------------------------------------------------------------------------
\* Download actions (utils/download.ts)
\* ------------------------------------------------------------------------
\* The file GET/HEAD /api/upload/download/<filename> serves: the controller
\* looks the name up in the upload directory and sends the file, or 404.
ServedFile(filename) ==
    IF paths[filename] = 0 THEN Absent ELSE inodes[paths[filename]]

\* downloadFileWithChunks(options) up to `await getFileSize(url, signal)`;
\* with a signal that is aborted already it throws the cancellation Error.
DownloadStart(filename, streamDownload, concurrency, signalAborted) ==
    /\ dl.pc = "idle"
    /\ LET d == [IdleDownload EXCEPT !.filename = filename,
                                     !.streamDownload = streamDownload,
                                     !.concurrency = concurrency,
                                     !.aborted = signalAborted]
       IN  dl' = IF signalAborted
                 THEN [d EXCEPT !.pc = "done", !.result = "error",
                                !.error = "cancelled"]
                 ELSE [d EXCEPT !.pc = "head"]

\* The HEAD request ends.  With a size, the ranges are made, in streaming
\* mode the output stream is opened, and asyncPool starts the mappers of the
\* first ranges; a failed probe or a size of 0 throws.
GetFileSizeResponse(ok, hasLength) ==
    /\ dl.pc = "head"
    /\ LET file == ServedFile(dl.filename)
           failed == ~ok \/ file = Absent
           fileSize == IF failed THEN 0
                       ELSE getFileSize(hasLength, Len(file))
           chunks == createChunks(fileSize, DownloadChunkSize)
           h == [dl EXCEPT !.head = IF failed THEN "failed"
                                    ELSE IF hasLength THEN "length"
                                    ELSE "noLength",
                           !.fileSize = fileSize]
           d == [h EXCEPT !.pc = "pool",
                          !.chunks = chunks,
                          !.thrown = [j \in 1..Len(chunks) |-> ""],
                          !.writer = IF dl.streamDownload THEN "open"
                                     ELSE "none"]
       IN  dl' = IF failed
                 THEN [h EXCEPT !.pc = "done", !.result = "error",
                                !.error = DownloadCatch("probeFailed")]
                 ELSE IF SizeUnknown(fileSize)
                 THEN [h EXCEPT !.pc = "done", !.result = "error",
                                !.error = DownloadCatch("noSize")]
                 ELSE DownloadPoolMoved(
                         d, asyncPool(d.concurrency, Len(chunks),
                                      DownloadImm(d)))

\* The GET of range k ends.  Its data is written to the stream (the mapper
\* then awaits the write) or pushed to chunksData (the mapper returns); an
\* error goes through retryOperation and the mapper throws it.
DownloadChunkResponse(k, ok) ==
    /\ dl.pc \in {"pool", "done"}
    /\ dl.pool.promise[k] = "pending"
    /\ k \notin dl.writing
    /\ LET file == ServedFile(dl.filename)
           range == dl.chunks[k + 1]
           data == SubSeq(file, range.start + 1, Min(range.end + 1, Len(file)))
       IN  dl' =
             IF ok /\ file # Absent
             THEN IF dl.streamDownload
                  THEN [dl EXCEPT !.output = @ \o data,
                                  !.writes = Append(@, range.index),
                                  !.writing = @ \cup {k}]
                  ELSE LET d == updateProgress(
                                  [dl EXCEPT !.chunksData =
                                      Append(@, [index |-> range.index,
                                                 data |-> data])],
                                  range.end - range.start + 1)
                       IN  DownloadPoolMoved(
                              d, PoolSettle(d.pool, k, "fulfilled",
                                            DownloadImm(d)))
             ELSE IF AnotherAttempt(1, DownloadRetryArg)
                  THEN dl
                  ELSE LET d == [dl EXCEPT !.thrown[k + 1] = "request"]
                       IN  DownloadPoolMoved(
                              d, PoolSettle(d.pool, k, "rejected",
                                            DownloadImm(d)))

\* `await writer.write(..)` of range k is over: updateProgress, the mapper
\* returns.
WriteDone(k) ==
    /\ k \in dl.writing
    /\ LET range == dl.chunks[k + 1]
           d == updateProgress([dl EXCEPT !.writing = @ \ {k}],
                               range.end - range.start + 1)
       IN  dl' = DownloadPoolMoved(
                    d, PoolSettle(d.pool, k, "fulfilled", DownloadImm(d)))

\* `await writer.write(..)` of range k rejects: the stream was aborted
\* while the write was waiting.  The mapper throws what it got.
WriteRejected(k) ==
    /\ k \in dl.writing
    /\ dl.writer = "aborted"
    /\ LET d == [dl EXCEPT !.writing = @ \ {k}, !.thrown[k + 1] = "write"]
       IN  dl' = DownloadPoolMoved(
                    d, PoolSettle(d.pool, k, "rejected", DownloadImm(d)))

\* axios rejects the range requests in ks, one after the other, because the
\* signal was aborted; retryOperation and the mapper throw the cancellation
\* on.
RECURSIVE CancelRequests(_, _)
CancelRequests(d, ks) ==
    IF ks = {} THEN d
    ELSE LET k == CHOOSE i \in ks : \A j \in ks : i <= j
             c == [d EXCEPT !.thrown[k + 1] = "axiosCancel"]
         IN  CancelRequests(
                DownloadPoolMoved(
                   c, PoolSettle(c.pool, k, "rejected", DownloadImm(c))),
                ks \ {k})

\* controller.abort() while the call runs.  During the probe, axios rejects
\* the HEAD request and getFileSize throws the cancellation Error.  Later,
\* the listener of the streaming mode calls writer.abort() and
\* writer.releaseLock() (what it throws goes nowhere), and axios rejects the
\* range requests in flight; the writes that wait stay as they are.
DownloadAbort ==
    /\ dl.pc \in {"head", "pool"}
    /\ ~dl.aborted
    /\ dl' = IF dl.pc = "head"
             THEN [dl EXCEPT !.aborted = TRUE, !.pc = "done",
                             !.result = "error",
                             !.error = DownloadCatch("cancelled")]
             ELSE CancelRequests(
                     [dl EXCEPT !.aborted = TRUE,
                                !.writer = IF @ = "open" THEN "aborted"
                                           ELSE @],
                     {k \in 0..Len(dl.chunks)-1 :
                        dl.pool.promise[k] = "pending" /\ k \notin dl.writing})

\* ------------------------------------------------------------------------
\* The download alone, from a server that holds the merged files; one of
\* them may be an empty file
\* ------------------------------------------------------------------------
InitDownload ==
    /\ InitPoolVars
    /\ InitClientVars
    /\ InitNetVars
    /\ InitDownloadVars
    /\ InitRetryVars
    /\ InitFcVars
    /\ req = [r \in ReqIds |-> IdleReq]
    /\ db = {}
    /\ dirExists = [h \in StoredHashes |-> FALSE]
    /\ chunkFile = [h \in StoredHashes |-> [i \in Indices |-> Absent]]
    /\ paths = [f \in Filenames |->
                  CASE f = "a.bin" -> 1 [] f = "b.bin" -> 2 [] f = "d.bin" -> 3]
    /\ \E empty \in BOOLEAN :
          inodes = [r \in ReqIds |->
                      CASE r = 1 -> ContentOf("hA")
                        [] r = 2 -> IF empty THEN <<>> ELSE ContentOf("hB")
                        [] r = 3 -> ContentOf("hD")
                        [] OTHER -> <<>>]

notDownload == <<poolVars, serverVars, clientVars, netVars, rtVars, fcVars>>

NextDownload ==
    \/ \E f \in Filenames, m \in BOOLEAN, n \in 1..MaxDlConcurrency,
          a \in BOOLEAN :
          DownloadStart(f, m, n, a) /\ UNCHANGED notDownload
    \/ \E ok \in BOOLEAN, hasLength \in BOOLEAN :
          GetFileSizeResponse(ok, hasLength) /\ UNCHANGED notDownload
    \/ \E k \in 0..Len(dl.chunks)-1, ok \in BOOLEAN :
          DownloadChunkResponse(k, ok) /\ UNCHANGED notDownload
    \/ \E k \in 0..Len(dl.chunks)-1 : WriteDone(k) /\ UNCHANGED notDownload
    \/ \E k \in 0..Len(dl.chunks)-1 : WriteRejected(k) /\ UNCHANGED notDownload
    \/ DownloadAbort /\ UNCHANGED notDownload

SpecDownload == InitDownload /\ [][NextDownload]_vars

\* ------------------------------------------------------------------------
\* Round trip: one file goes through the uploader to the server, and once
\* the upload has reported success it is downloaded again
\* ------------------------------------------------------------------------
InitRoundTrip ==
    /\ InitPoolVars
    /\ InitServerVars
    /\ InitClientVars
    /\ InitNetVars
    /\ InitDownloadVars
    /\ InitRetryVars
    /\ InitFcVars

\* the files that make the round trip
RoundTripFiles == {"hB", "hD"}

\* The POST of item k of call c is on its way
OnTheWire(c, k) ==
    /\ call[c].pc \in {"pool", "done"}
    /\ call[c].pool.promise[k] = "pending"
    /\ \A m \in net : ~(m.call = c /\ m.item = k)

\* The server receives the POST of item k of call c: the controller parses
\* the form fields and calls handleChunk.
ReceiveChunk(c, k, r) ==
    /\ OnTheWire(c, k)
    /\ HandleChunkStart(r, UploadRequest(call[c].file, call[c].chunks[k + 1]))
    /\ net' = net \cup {[call |-> c, item |-> k, req |-> r]}
    /\ UNCHANGED <<poolVars, clientVars, dlVars, rtVars, fcVars>>

\* The reply of the server reaches uploadChunk.
ReplyChunk(m) ==
    /\ req[m.req].pc = "done"
    /\ UploadChunkResponse(m.call, m.item, req[m.req].status)
    /\ net' = net \ {m}
    /\ UNCHANGED <<poolVars, serverVars, dlVars, rtVars, fcVars>>

NextRoundTrip ==
    \/ \E f \in RoundTripFiles :
          HandleUploadStart(1, f) /\ UNCHANGED notUploader
    \/ ProcessFileChunksDone(1) /\ UNCHANGED notUploader
    \/ \E k \in 0..Len(call[1].chunks)-1, r \in ReqIds : ReceiveChunk(1, k, r)
    \/ \E r \in ReqIds : ServerStep(r) /\ UNCHANGED notServer
    \/ \E m \in net : ReplyChunk(m)
    \/ \E m \in BOOLEAN, n \in 1..MaxDlConcurrency :
          /\ call[1].reported = "success"
          /\ DownloadStart(FilenameOf(call[1].file), m, n, FALSE)
          /\ UNCHANGED notDownload
    \/ GetFileSizeResponse(TRUE, TRUE) /\ UNCHANGED notDownload
    \/ \E k \in 0..Len(dl.chunks)-1 :
          DownloadChunkResponse(k, TRUE) /\ UNCHANGED notDownload
    \/ \E k \in 0..Len(dl.chunks)-1 : WriteDone(k) /\ UNCHANGED notDownload

SpecRoundTrip == InitRoundTrip /\ [][NextRoundTrip]_vars

\* ------------------------------------------------------------------------
\* C1: during an asyncPool(N, items, fn) call the number of fn invocations
\* that have started and have not settled never exceeds N, whatever the
\* order and the outcome of the mappers.
\* ------------------------------------------------------------------------
C1_AtMostNOutstanding ==
    /\ Cardinality(InFlight(ap)) <= ap.concurrency
    /\ ap.peak <= ap.concurrency

\* N mappers are in flight after a mapper that was in flight has fulfilled,
\* and an item still waits
C1_Witness ==
    /\ apPc = "called"
    /\ Cardinality(InFlight(ap)) = ap.concurrency
    /\ \E i \in 0..ap.cnt-1 :
          apFn[i] = "pending" /\ ap.promise[i] = "fulfilled"
    /\ \E i \in 0..ap.cnt-1 : ap.wrapper[i] = "waiting"

\* ------------------------------------------------------------------------
\* C2: handleChunk starts mergeChunks for a fileHash only when the stored
\* records of that fileHash number exactly ceil(totalSize / 2 MiB) and their
\* indices are exactly 0..count-1; when the count matches but an index is
\* missing, the request fails, no merge starts and no file is created.
\* ------------------------------------------------------------------------
RecordsOf(h) == {rec \in db : rec.fileHash = h}

SessionComplete(h, totalSize) ==
    /\ Cardinality(RecordsOf(h)) = Ceil(totalSize, 2)
    /\ {rec.index : rec \in RecordsOf(h)} = 0..(Cardinality(RecordsOf(h)) - 1)

C2_MergeOnlyWhenComplete ==
    [][\A r \in ReqIds :
         (req[r].pc = "find" /\ req'[r] # req[r]) =>
            LET h == req[r].info.fileHash
                total == req[r].info.totalSize
            IN  /\ req'[r].pc = "m_find" => SessionComplete(h, total)
                /\ (/\ Cardinality(RecordsOf(h)) = Ceil(total, 2)
                    /\ ~SessionComplete(h, total))
                   => /\ req'[r].pc = "done"
                      /\ req'[r].status = "error"
                      /\ paths' = paths
                      /\ inodes' = inodes]_vars

\* one request has merged its file and another has met a record count that
\* matches with an index missing
C2_Witness ==
    /\ \E r \in ReqIds : req[r].pc = "done" /\ req[r].err = "sequence"
    /\ \E r \in ReqIds : req[r].pc = "done" /\ req[r].status = "complete"

\* ------------------------------------------------------------------------
\* C3: when the chunks 0..n-1 of a file are accepted one request at a time,
\* in any order, the request that completes the set returns status complete
\* and the merged file is the chunks in ascending index order, that is the
\* file itself.
\* ------------------------------------------------------------------------
ChunkCount(h) == Ceil(FileSizeOf(h), 2)

\* the requests for file h that passed validation
Accepted(h) ==
    {r \in ReqIds : /\ req[r].pc # "idle"
                    /\ req[r].info.fileHash = h
                    /\ req[r].err \notin ValidationErrors}

\* every accepted request for h carries a chunk of h as the client cuts it
OnlyOwnChunks(h) ==
    \A r \in Accepted(h) :
        /\ req[r].info.index < ChunkCount(h)
        /\ req[r].info = Honest(h, req[r].info.index)

\* the requests that have brought every index of h at least once
Covering(h) ==
    {r \in Accepted(h) :
        {req[k].info.index : k \in {x \in Accepted(h) : x <= r}}
            = 0..(ChunkCount(h) - 1)}

C3_OutOfOrderMerge ==
    \A h \in FileHashes :
        (OnlyOwnChunks(h) /\ Covering(h) # {}) =>
            LET first == CHOOSE r \in Covering(h) :
                             \A k \in Covering(h) : r <= k
            IN  req[first].pc = "done" =>
                  /\ req[first].status = "complete"
                  /\ (\A r \in Accepted(h) : r <= first) =>
                        /\ paths[FilenameOf(h)] # 0
                        /\ inodes[paths[FilenameOf(h)]] = ContentOf(h)

\* the three chunks of the 5 MiB file arrived as 2, 0, 1 and were merged
C3_Witness ==
    /\ req[1].info = Honest("hA", 2)
    /\ req[2].info = Honest("hA", 0)
    /\ req[3].info = Honest("hA", 1)
    /\ req[3].pc = "done"
    /\ req[3].status = "complete"
    /\ req[4].pc = "idle"
    /\ inodes[paths["a.bin"]] = ContentOf("hA")

\* ------------------------------------------------------------------------
\* C4: the same (fileHash, index) submitted twice, the second request
\* starting after the first has returned, leaves exactly one record for the
\* pair, the one the second request wrote.
\* ------------------------------------------------------------------------
PairRecords(h, index) ==
    {rec \in db : rec.fileHash = h /\ rec.index = index}

\* r1 and r2 were accepted for the same pair, r2 has returned and nothing
\* has arrived since
Resubmitted(r1, r2) ==
    /\ r1 < r2
    /\ req[r2].pc = "done"
    /\ req[r1].info.fileHash = req[r2].info.fileHash
    /\ req[r1].info.index = req[r2].info.index
    /\ r1 \in Accepted(req[r1].info.fileHash)
    /\ r2 \in Accepted(req[r2].info.fileHash)
    /\ \A k \in ReqIds : k > r2 => req[k].pc = "idle"

\* the claim as it stands
C4_ExactlyOneRecord ==
    \A r1, r2 \in ReqIds :
        Resubmitted(r1, r2) =>
            \E rec \in db :
                /\ rec.id = r2
                /\ PairRecords(req[r2].info.fileHash, req[r2].info.index)
                     = {rec}

\* C4 as amended: exactly one record, the second request's, unless the
\* second request returned complete; then the merge has removed every
\* record of the fileHash.
C4_OneRecordUnlessMerged ==
    \A r1, r2 \in ReqIds :
        Resubmitted(r1, r2) =>
            IF req[r2].status = "complete"
            THEN RecordsOf(req[r2].info.fileHash) = {}
            ELSE \E rec \in db :
                    /\ rec.id = r2
                    /\ PairRecords(req[r2].info.fileHash, req[r2].info.index)
                         = {rec}

\* chunk 0 of the 5 MiB file was sent twice and one record, the second, is
\* in the store
C4_Witness ==
    /\ Resubmitted(1, 2)
    /\ req[2].status = "uploading"
    /\ req[1].status = "uploading"
    /\ \E rec \in db : rec.id = 2 /\ RecordsOf(req[2].info.fileHash) = {rec}

\* ------------------------------------------------------------------------
\* C5: in every reachable state, also with handleChunk requests interleaved
\* at their awaits, the store holds at most one record per (fileHash, index).
\* ------------------------------------------------------------------------
C5_OneRecordPerPair ==
    \A rec1, rec2 \in db :
        (rec1.fileHash = rec2.fileHash /\ rec1.index = rec2.index)
            => rec1 = rec2

\* ------------------------------------------------------------------------
\* C6: a file uploaded through the uploader and the server and then
\* downloaded with downloadFileWithChunks comes out with the bytes of the
\* original, for every concurrency, in both output modes and for every
\* order in which the chunk uploads and the range requests complete.
\* ------------------------------------------------------------------------
C6_RoundTripIdentical ==
    (call[1].reported = "success" /\ dl.result = "ok")
        => dl.saved = ContentOf(call[1].file)

\* ------------------------------------------------------------------------
\* C7: in streaming mode the ranges are written to the output stream in
\* ascending index order, whatever the order in which the range requests
\* complete.
\* ------------------------------------------------------------------------
C7_StreamWritesAscending ==
    dl.streamDownload =>
        \A x, y \in 1..Len(dl.writes) : x < y => dl.writes[x] < dl.writes[y]

\* ------------------------------------------------------------------------
\* C8: when an upload ended in failure after the server had acknowledged
\* some of its chunks and handleUpload is called again for the same file,
\* the acknowledged chunks are not posted again.
\* ------------------------------------------------------------------------
C8_AckedChunksNotResent ==
    \A c \in CallIds : \A k \in call[c].resumes :
        call[c].pc \in {"pool", "done"} => call[c].sends[k] = 0

\* ------------------------------------------------------------------------
\* C9: handleUpload reports success only if every chunk of the file was
\* acknowledged by the server (status uploading or complete) while the call
\* was running.
\* ------------------------------------------------------------------------
C9_SuccessOnlyIfAllAcked ==
    \A c \in CallIds :
        call[c].reported = "success" =>
            call[c].ackSince = 0..(Len(call[c].chunks) - 1)

\* a call reported success after it skipped a chunk that an earlier call's
\* POST had got acknowledged meanwhile
C9_Witness ==
    \E c \in CallIds :
        /\ call[c].reported = "success"
        /\ call[c].skipped # {}
        /\ call[c].acked # {}

\* ------------------------------------------------------------------------
\* C10: when an upload fails because chunks failed for good, the message it
\* reports carries the number of failed chunks, failedChunks.size.
\* ------------------------------------------------------------------------
C10_FailureReportsCount ==
    \A c \in CallIds :
        (/\ call[c].pc = "done"
         /\ call[c].reported # "success"
         /\ call[c].failedAtEnd > 0)
        => /\ call[c].reported = "count"
           /\ call[c].reportedCount = call[c].failedAtEnd

\* ------------------------------------------------------------------------
\* C11: after handleCancel was invoked during an upload, no chunk is posted
\* any more on behalf of that upload, also when in-flight POSTs complete,
\* pool waiters wake up, and a new upload is started afterwards.
\* ------------------------------------------------------------------------
C11_NoPostAfterCancel ==
    \A c \in CallIds : call[c].postsAfterCancel = 0

\* ------------------------------------------------------------------------
\* C12: an upload the user cancelled with handleCancel ends without showing
\* an error message.
\* ------------------------------------------------------------------------
C12_CancelShowsNoError ==
    \A c \in CallIds :
        (call[c].cancelled /\ call[c].pc = "done")
            => call[c].reported \in {"", "success"}

\* ------------------------------------------------------------------------
\* C13: an operation wrapped in retryOperation with maxAttempts = k, as the
\* uploader and the download call it, is invoked again after each failure
\* until it succeeds or has been invoked k times; it is never invoked more
\* than k times, its first success is returned, and when all k invocations
\* fail the last error is thrown.
\* ------------------------------------------------------------------------
C13_RetriesUpToMaxAttempts ==
    \A r \in RetryIds :
        LET q == rt[r]
            k == q.arg.maxAttempts
        IN  q.arg.form = "options" /\ q.pc # "idle"
            => /\ q.invocations <= k
               /\ q.outcome = "returned" => q.failures = q.invocations - 1
               /\ q.outcome = "thrown"
                    => q.invocations = k /\ q.failures = k
                       /\ q.lastError \in RetryErrors

\* ------------------------------------------------------------------------
\* C14: retryOperation calls the onError of its caller once for every
\* failed attempt, also when a later attempt succeeds.
\* ------------------------------------------------------------------------
C14_OnErrorPerFailure ==
    \A r \in RetryIds :
        rt[r].arg.form = "options" => rt[r].onErrorCalls = rt[r].failures

\* ------------------------------------------------------------------------
\* C15: when every mapper succeeds, asyncPool(N, items, fn) returns an array
\* whose i-th element is the result of fn(items[i]), for every N, every item
\* count and every order in which the mappers complete.
\* ------------------------------------------------------------------------
C15_ResultsInInputOrder ==
    (apPc = "called" /\ ap.phase = "fulfilled")
        => ap.results = [k \in 1..ap.cnt |-> k - 1]

\* the call fulfilled over more items than N, N > 1, every mapper having
\* settled from an event of its own
C15_Witness ==
    /\ apPc = "called"
    /\ ap.phase = "fulfilled"
    /\ ap.cnt > ap.concurrency
    /\ ap.concurrency > 1
    /\ ap.results = [k \in 1..ap.cnt |-> k - 1]
    /\ \A i \in 0..ap.cnt-1 : apFn[i] = "pending"

\* ------------------------------------------------------------------------
\* C16: when a mapper fails, asyncPool rejects only after every mapper that
\* had been started has settled.
\* ------------------------------------------------------------------------
C16_RejectsAfterAllSettled ==
    (apPc = "called" /\ ap.phase = "rejected") => InFlight(ap) = {}

\* ------------------------------------------------------------------------
\* C17: with more items than N and exactly one item whose mapper fails, the
\* mapper of every other item is still invoked and completes, and the call
\* fails with the error of the failing item.
\* ------------------------------------------------------------------------
Rejected(p) == {i \in 0..p.cnt-1 : p.promise[i] = "rejected"}

\* no mapper is in flight: nothing more can happen in the call
C17_OthersStillRun ==
    (/\ apPc = "called"
     /\ ap.cnt > ap.concurrency
     /\ InFlight(ap) = {}
     /\ Cardinality(Rejected(ap)) = 1)
    => /\ \A i \in 0..ap.cnt-1 : Settled(ap.promise[i])
       /\ ap.phase = "rejected"
       /\ ap.error \in Rejected(ap)

\* ------------------------------------------------------------------------
\* C18: asyncPool(N, items, fn) settles at some time whenever every invoked
\* mapper settles at some time; an empty list resolves to an empty array
\* without a call of fn, and N larger than the item count does not block.
\* ------------------------------------------------------------------------
C18_EventuallySettles ==
    /\ <>(apPc = "called" /\ Settled(ap.phase))
    /\ [](apPc = "called" /\ ap.cnt = 0
            => ap.phase = "fulfilled" /\ ap.results = <<>> /\ ap.peak = 0)

\* a call over fewer items than N has fulfilled after its mappers settled
C18_Witness ==
    /\ apPc = "called"
    /\ ap.phase = "fulfilled"
    /\ ap.cnt > 0
    /\ ap.concurrency > ap.cnt
    /\ \A i \in 0..ap.cnt-1 : apFn[i] = "pending"

\* ------------------------------------------------------------------------
\* C19: a mergeChunks that runs while a chunk index has a record but no
\* chunk file fails with an error, and when it has returned no file exists
\* at the path of the merged artifact.
\* ------------------------------------------------------------------------
MissingErrors == {"missing", "read"}

C19_MissingChunkFailsClean ==
    [][\A r \in ReqIds :
         LET q == req[r]
             h == q.info.fileHash
         IN  /\ (/\ q.pc = "m_access"
                 /\ req'[r] # q
                 /\ chunkFile[h][q.i] = Absent)
                => req'[r].err = "missing"
             /\ (/\ q.pc = "m_pipe"
                 /\ req'[r] # q
                 /\ chunkFile[h][q.chunks[q.i + 1].index] = Absent)
                => req'[r].err = "read"
             /\ (/\ q.pc # "done"
                 /\ req'[r].pc = "done"
                 /\ req'[r].err \in MissingErrors)
                => /\ req'[r].status = "error"
                   /\ paths'[q.info.filename] = 0]_vars

\* a merge has found the record of a chunk whose file is gone, and has
\* returned
C19_Witness ==
    \E r \in ReqIds :
        /\ req[r].pc = "done"
        /\ req[r].status = "error"
        /\ req[r].err = "missing"
        /\ findChunks(db, req[r].info.fileHash) # {}
        /\ paths[req[r].info.filename] = 0

\* ------------------------------------------------------------------------
\* C20: when mergeChunks fails an integrity check (a gap in the indices, a
\* missing chunk file, a size mismatch) the partial output is deleted, and
\* the merge changes no chunk record and no chunk file.
\* ------------------------------------------------------------------------
IntegrityErrors == {"gap", "missing", "size"}

\* the positions of mergeChunks from its start to the end of its catch block
MergeChecking == {"m_find", "m_access", "m_pipe", "m_stat", "m_final",
                  "m_unlink"}

C20_FailedMergeKeepsChunks ==
    [][\A r \in ReqIds :
         LET q == req[r]
         IN  /\ (req'[r] # q /\ req'[r].err \in IntegrityErrors)
                => q.pc \in MergeChecking
             /\ (req'[r] # q /\ q.pc \in MergeChecking)
                => db' = db /\ chunkFile' = chunkFile /\ dirExists' = dirExists
             /\ (/\ q.pc # "done"
                 /\ req'[r].pc = "done"
                 /\ req'[r].err \in IntegrityErrors)
                => /\ req'[r].status = "error"
                   /\ paths'[q.info.filename] = 0]_vars

\* a merge has failed the size check and has returned; the records and the
\* chunk files of its file are there
C20_Witness ==
    \E r \in ReqIds :
        LET h == req[r].info.fileHash
        IN  /\ req[r].pc = "done"
            /\ req[r].err = "size"
            /\ paths[req[r].info.filename] = 0
            /\ findChunks(db, h) # {}
            /\ \A c \in findChunks(db, h) : chunkFile[h][c.index] # Absent

\* ------------------------------------------------------------------------
\* C21: when handleChunk returns status complete and no other request for
\* the same fileHash is in progress, the store holds no record of that
\* fileHash, its chunk directory is gone, and the file at the returned path
\* is as long as the sum of the recorded chunk sizes.
\* ------------------------------------------------------------------------
OthersInProgress(reqs, r) ==
    {x \in ReqIds \ {r} :
        /\ reqs[x].pc \notin {"idle", "done"}
        /\ reqs[x].info.fileHash = reqs[r].info.fileHash}

C22_CleanupFailureKeepsArtifact ==
    [][\A r \in ReqIds :
         LET f == req[r].info.filename
         IN  (/\ req[r].pc # "done"
              /\ req'[r].pc = "done"
              /\ req'[r].err = "rm")
             => /\ paths'[f] # 0
                /\ paths[f] # 0 => inodes'[paths'[f]] = inodes[paths[f]]]_vars

\* ------------------------------------------------------------------------
\* C23: every chunk request with an empty fileHash, filename or hash, with
\* an index, size or totalSize field that is not a number (parseInt gives
\* NaN), or with size or totalSize <= 0, is rejected with a validation
\* error.
\* ------------------------------------------------------------------------
Malformed(form) ==
    \/ form.fileHash = ""
    \/ form.filename = ""
    \/ form.hash = ""
    \/ \E field \in {form.index, form.size, form.totalSize} :
          parseInt(field).nan
    \/ AtMostZero(parseInt(form.size))
    \/ AtMostZero(parseInt(form.totalSize))

C23_MalformedRejected ==
    (fc.pc = "returned" /\ Malformed(fc.arg)) => fc.out.error # ""

\* ------------------------------------------------------------------------
\* C24: when the server process stops at an await of handleChunk or
\* mergeChunks and starts again with the persisted chunk files and records,
\* and the client sends again every chunk it has no acknowledgement for,
\* the transfer reaches status complete with an artifact equal to the file.
\* ------------------------------------------------------------------------
TransferComplete ==
    /\ \E r \in ReqIds : req[r].pc = "done" /\ req[r].status = "complete"
    /\ paths[FilenameOf(RestartFile)] # 0
    /\ inodes[paths[FilenameOf(RestartFile)]] = ContentOf(RestartFile)

C24_CompletesAfterRestart == <>TransferComplete

\* ------------------------------------------------------------------------
\* C25: for every file size S >= 0 and chunk size C >= 1 the chunk worker
\* delivers n = ceil(S/C) chunks with the indices 0..n-1 in ascending order,
\* every chunk but the last of C bytes and the last of S - C*(n-1) bytes
\* (S bytes in all), and reports totalChunks = n; the batches of 5 lose,
\* repeat and reorder no chunk.
\* ------------------------------------------------------------------------
RECURSIVE Concat(_)
Concat(chunks) ==
    IF chunks = <<>> THEN <<>>
    ELSE Head(chunks).chunk \o Concat(Tail(chunks))

C26_RangesPartitionFile ==
    (fc.pc = "ranges" /\ fc.arg.fileSize >= 1) =>
        LET ranges == fc.out
            n == Len(ranges)
        IN  /\ n = Ceil(fc.arg.fileSize, fc.arg.chunkSize)
            /\ \A i \in 1..n :
                  /\ ranges[i].index = i - 1
                  /\ ranges[i].start =
                        IF i = 1 THEN 0 ELSE ranges[i - 1].end + 1
                  /\ i < n => ranges[i].end - ranges[i].start + 1
                                 = fc.arg.chunkSize
                  /\ ranges[i].start <= ranges[i].end
            /\ ranges[n].end = fc.arg.fileSize - 1

\* createChunks has returned three ranges or more, the last one short
C26_Witness ==
    /\ fc.pc = "ranges"
    /\ Len(fc.out) >= 3
    /\ fc.arg.fileSize % fc.arg.chunkSize # 0
    /\ fc.out[Len(fc.out)].end = fc.arg.fileSize - 1

\* C27: when the size probe answers without a Content-Length, or with a
\* Content-Length of 0, downloadFileWithChunks rejects with an error; it has
\* made no range, started no mapper (so no range request), and opened no
\* output stream.
NoSizeFromProbe ==
    dl.head = "noLength" \/ (dl.head = "length" /\ dl.fileSize = 0)

C27_NoSizeFailsBeforeAnyRequest ==
    NoSizeFromProbe =>
        /\ dl.pc = "done" /\ dl.result = "error" /\ dl.error = "noSize"
        /\ dl.chunks = <<>> /\ dl.pool = NewPool(1, 0)
        /\ dl.writer = "none" /\ dl.output = <<>> /\ dl.saved = Absent

\* Both cases happen: a probe without the header, and one of an empty file.
C27_Witness ==
    /\ NoSizeFromProbe /\ dl.result = "error"
    /\ dl.streamDownload
    /\ dl.head = "length"

\* C28: once the signal was aborted during a download, the call rejects
\* with the cancellation Error and with nothing else, FileList shows no
\* failure message, and no range request starts after the abort.
C28_AbortRejectsWithCancellation ==
    (dl.aborted /\ dl.pc = "done") =>
        /\ dl.result = "error" /\ dl.error = "cancelled"
        /\ ~FailureMessageShown(dl)

\* The parts of C28 that the code does keep: no failure message, and no
\* request in flight once the signal is aborted.
C28_NoMessageNoRequestAfterAbort ==
    dl.aborted =>
        /\ ~FailureMessageShown(dl)
        /\ \A k \in 0..Len(dl.chunks)-1 :
              dl.pool.promise[k] = "pending" => k \in dl.writing
\* C29: while one handleUpload call runs, the progress shown never goes
\* down and never exceeds 100, whatever happens in between: acknowledgements,
\* skipped chunks, failures, a cancel.
C29_ProgressNeverDecreases ==
    [][\A c \in CallIds :
          (Running(call[c]) /\ Running(call[c])') =>
              (progress' >= progress /\ progress' <= 100)]_vars

\* C30: when handleChunk has stored a valid chunk and the session is not
\* complete (the number of records is not the expected one, or their indices
\* are not 0, 1, 2, ..), it returns {status: uploading, uploaded: N}, N the
\* number of records of the fileHash, and does not fail.
SessionIncomplete(info) ==
    LET uploadedChunks == findChunks(db, info.fileHash)
    IN  \/ Cardinality(uploadedChunks) # expectedChunksCount(info.totalSize)
        \/ ~isSequenceComplete(SortByIndex(uploadedChunks))

C30_IncompleteReturnsUploading ==
    [][\A r \in ReqIds :
          (req[r].pc = "find" /\ req[r]' # req[r]
           /\ SessionIncomplete(req[r].info)) =>
              /\ req[r]'.pc = "done"
              /\ req[r]'.status = "uploading"
              /\ req[r]'.err = ""
              /\ req[r]'.uploaded
                   = Cardinality(findChunks(db, req[r].info.fileHash))]_vars

\* C31: whenever getUploadedFiles answers, also while a merge runs or has
\* just failed, every file it lists is an artifact whose merge has ended
\* with the size verification passed: no merge is writing it, and it is
\* neither partial nor empty.
Merging(f) ==
    \E r \in InProgress :
       /\ req[r].info.filename = f
       /\ req[r].pc \in {"m_find", "m_access", "m_pipe", "m_stat", "m_final",
                         "m_rm", "m_removeChunks", "m_unlink"}

C31_ListsOnlyCompletedArtifacts ==
    [][(fc' # fc /\ fc'.pc = "listed") =>
          \A f \in Filenames :
             fc'.out[f] >= 0 =>
                /\ ~Merging(f)
                /\ \E h \in FileHashes :
                      FilenameOf(h) = f /\ fc'.out[f] = FileSizeOf(h)]_vars

\* C32: within one handleUpload call no chunk has two POSTs in flight at the
\* same time, and asyncPool starts the mapper of each chunk at most once.
C32_OneSendInFlightPerChunk ==
    \A c \in CallIds :
       /\ \A k \in 0..Len(call[c].chunks)-1 :
             call[c].inflight = <<>> \/ call[c].inflight[k] <= 1
       /\ \A x, y \in 1..Len(call[c].pool.results) :
             call[c].pool.results[x] = call[c].pool.results[y] => x = y

\* Three chunks are in flight at once, each with one POST, and one chunk
\* that waited was sent after another one settled.
C32_Witness ==
    \E c \in CallIds :
       /\ call[c].pc = "pool"
       /\ Cardinality({k \in 0..Len(call[c].chunks)-1 :
                          call[c].inflight[k] = 1}) = UploadConcurrency
       /\ \E k \in 0..Len(call[c].chunks)-1 :
             Settled(call[c].pool.promise[k])

\* C33: when the requests of one file carry distinct indices, all of them
\* chunks of the file, and are handled concurrently, then from the moment one of them has returned complete the
\* merged artifact is there with its full content, whatever the other
\* requests still do.
DistinctIndices(h) ==
    /\ \A x, y \in ReqIds :
          (/\ req[x].pc # "idle" /\ req[y].pc # "idle"
           /\ req[x].info.fileHash = h /\ req[y].info.fileHash = h
           /\ req[x].info.index = req[y].info.index) => x = y
    /\ \A x \in ReqIds :
          (req[x].pc # "idle" /\ req[x].info.fileHash = h) =>
             req[x].info.index < expectedChunksCount(req[x].info.totalSize)

C33_CompleteArtifactStays ==
    \A r \in ReqIds :
       (/\ req[r].pc = "done" /\ req[r].status = "complete"
        /\ DistinctIndices(req[r].info.fileHash)) =>
           /\ paths[req[r].info.filename] # 0
           /\ inodes[paths[req[r].info.filename]]
                = ContentOf(req[r].info.fileHash)

\* C34: a merge that fails leaves the artifact of an earlier, completed
\* transfer of the same filename as it was.  With requests handled one at a
\* time: when request r returned complete and every later request for the
\* same filename has ended without completing, the artifact r answered for
\* is in place with its content.
C34_FailedMergeKeepsEarlierArtifact ==
    \A r \in ReqIds :
       (/\ req[r].pc = "done" /\ req[r].status = "complete"
        /\ \A x \in ReqIds :
              (x > r /\ req[x].pc # "idle"
               /\ req[x].info.filename = req[r].info.filename) =>
                  (req[x].pc = "done" /\ req[x].status # "complete")) =>
           /\ paths[req[r].info.filename] # 0
           /\ inodes[paths[req[r].info.filename]]
                = ContentOf(req[r].info.fileHash)

\* C35: with requests handled one at a time, once a chunk was accepted for
\* every index of a file the transfer has reached complete: a record with an
\* index outside the file, or any other surplus record, does not keep the
\* session collecting.
AcceptedIndex(h, i) ==
    \E r \in ReqIds :
       /\ req[r].pc = "done" /\ req[r].status \in {"uploading", "complete"}
       /\ req[r].info.fileHash = h /\ req[r].info.index = i

C35_AllIndicesAcceptedCompletes ==
    \A h \in FileHashes :
       (/\ InProgress = {}
        /\ \A i \in 0..(expectedChunksCount(FileSizeOf(h)) - 1) :
              AcceptedIndex(h, i)) =>
           \E r \in ReqIds :
              /\ req[r].pc = "done" /\ req[r].status = "complete"
              /\ req[r].info.fileHash = h

\* C36: for a file of any size, the empty file included, and any chunk
\* size, the promise of processFileChunks settles at some time.
C36_ChunkingSettles == <>(fc.out.promise # "pending")

\* C37: when a streaming download that opened its output stream settles,
\* by success, by a range that failed for good or by cancellation, the
\* writer is closed or aborted: no failed download leaves the stream open.
C37_WriterClosedOrAborted ==
    (dl.pc = "done" /\ dl.streamDownload /\ dl.writer # "none") =>
        dl.writer \in {"closed", "aborted"}

\* C38: a handleUpload call that was cancelled and has not finished yet
\* does nothing to the upload started after it: it does not abort the new
\* call's AbortController, does not clear the chunks acknowledged to the new
\* call from uploadedChunksRef, and posts no chunk because it finds the new
\* controller in the ref.
C38_EarlierCallLeavesNewUploadAlone ==
    \A c \in CallIds :
       /\ (Running(call[c]) /\ ~call[c].cancelled) =>
             /\ c \notin aborted
             /\ abortControllerRef = c
             /\ \A k \in call[c].acked :
                   call[c].chunks[k + 1].id \in uploadedChunksRef
       /\ call[c].postsAfterCancel = 0

\* C39: a handleChunk request that validation rejects changes nothing: no
\* chunk directory is made, no chunk file written, no record removed or
\* inserted, and the request does nothing after the rejection.
C39_RejectedRequestChangesNothing ==
    [][\A r \in ReqIds :
          /\ (req[r].pc = "idle" /\ req[r]'.pc = "done"
              /\ req[r]'.err \in ValidationErrors) =>
                 UNCHANGED <<db, dirExists, chunkFile, paths, inodes>>
          /\ (req[r].pc = "done" /\ req[r].err \in ValidationErrors) =>
                 req[r]' = req[r]]_vars

\* A request was rejected by validation while a record and a chunk file of
\* its fileHash and index were stored.
C39_Witness ==
    \E r \in ReqIds :
       /\ req[r].pc = "done" /\ req[r].err \in ValidationErrors
       /\ \E rec \in db : /\ rec.fileHash = req[r].info.fileHash
                           /\ rec.index = req[r].info.index
       /\ chunkFile[req[r].info.fileHash][req[r].info.index] # Absent
====
